---- MODULE Spec2Model ----
(***************************************************************************)
(* Model of the parsing and normalization engine of chimas: the scanner    *)
(* record extractor (text/log and JSON paths), the deduplicator/merger,    *)
(* and the upload routing of the application shell.                        *)
(*                                                                         *)
(* Strings of the program are TLA+ strings; TLC evaluates Len, SubSeq and  *)
(* \o on them character by character, so keys, line grammars and joined    *)
(* rule names are computed exactly as the code computes them.              *)
(***************************************************************************)
EXTENDS Integers, Sequences, FiniteSets, TLC

VARIABLES
    pc,             \* position of the run: which operation has been applied
    fileType,       \* parseSnafflerData: the declared category json | text | log
    data,           \* parseSnafflerData: decoded JSON value, or the text data[0]
    outcome,        \* parseSnafflerData: "none", "ok" or the error it throws
    results,        \* parseSnafflerText/Json: findings extracted, before dedup
    noDuplicates,   \* output of removeDuplicates (pass 1)
    finalResults,   \* output of removePriorityDuplicates (pass 2)
    duplicateStats, \* output of getDuplicateStats
    rerunResults,   \* the dedup pipeline applied to its own output
    file,           \* processFile: the File handed over, [name, text]
    called,         \* the parsers the upload handler has called, in call order
    allResults,     \* App state allResults
    shareResults,   \* App state shareResults
    GPOReport,      \* App state GPOReport
    stats,          \* App state stats
    duplicateStatsState, \* App state duplicateStats
    loadedFileName, \* App state loadedFileName
    loadedFileSize, \* App state loadedFileSize
    currentView,    \* App state currentView
    errorInfo       \* App state errorInfo

\* the state of the App component and the file it is given
appVars == <<file, called, allResults, shareResults, GPOReport, stats,
             duplicateStatsState, loadedFileName, loadedFileSize, currentView,
             errorInfo>>

vars == <<pc, fileType, data, outcome, results, noDuplicates, finalResults,
          duplicateStats, rerunResults, appVars>>

-----------------------------------------------------------------------------
(* Bounds *)

\* longest sequence of extracted findings fed to the dedup pipeline
MaxResults == 3

-----------------------------------------------------------------------------
(* Small helpers on sequences *)

Range(s) == {s[i] : i \in 1..Len(s)}

NoStats == [originalCount |-> 0, finalCount |-> 0, duplicatesRemoved |-> 0,
            duplicatePercentageX100 |-> 0]

-----------------------------------------------------------------------------
(* JavaScript string primitives, 1-based; position 0 stands for -1 *)

Min(S) == CHOOSE x \in S : \A y \in S : x <= y

Max(S) == CHOOSE x \in S : \A y \in S : y <= x

\* s.charAt(i - 1): "" outside the string
Char(s, i) == IF 1 <= i /\ i <= Len(s) THEN SubSeq(s, i, i) ELSE ""

\* s.substring(i - 1, j), clamped to the string as substring clamps
Slice(s, i, j) ==
    LET lo == IF i < 1 THEN 1 ELSE i
        hi == IF j > Len(s) THEN Len(s) ELSE j
    IN  IF lo > hi THEN "" ELSE SubSeq(s, lo, hi)

\* s.substring(i - 1)
From(s, i) == IF i > Len(s) THEN "" ELSE SubSeq(s, i, Len(s))

StartsAt(s, sub, i) ==
    /\ 1 <= i
    /\ i + Len(sub) - 1 <= Len(s)
    /\ SubSeq(s, i, i + Len(sub) - 1) = sub

\* s.indexOf(sub, from - 1) + 1
indexOf(s, sub, from) ==
    LET found == {i \in from..(Len(s) - Len(sub) + 1) : StartsAt(s, sub, i)}
    IN  IF found = {} THEN 0 ELSE Min(found)

includes(s, sub) == indexOf(s, sub, 1) # 0

\* the characters \s matches, among those the inputs are written with
Whitespace == {" ", "\t", "\n", "\r"}

\* the characters '.' does not match
LineTerminators == {"\n", "\r"}

Digits == {"0", "1", "2", "3", "4", "5", "6", "7", "8", "9"}

NoTerminator(s) == \A i \in 1..Len(s) : Char(s, i) \notin LineTerminators

\* the last position of the run that starts at p of characters of chars (when
\* inside) or of characters that are not of chars, as a greedy [...]* or
\* [^...]* takes it; p - 1 when the run is empty
RECURSIVE runEnd(_, _, _, _)
runEnd(s, p, chars, inside) ==
    IF p <= Len(s) /\ ((Char(s, p) \in chars) = inside)
    THEN runEnd(s, p + 1, chars, inside)
    ELSE p - 1

\* s.trimStart()
RECURSIVE trimStart(_)
trimStart(s) ==
    IF s # "" /\ Char(s, 1) \in Whitespace THEN trimStart(From(s, 2)) ELSE s

\* s.trimEnd()
RECURSIVE trimEnd(_)
trimEnd(s) ==
    IF s # "" /\ Char(s, Len(s)) \in Whitespace
    THEN trimEnd(SubSeq(s, 1, Len(s) - 1)) ELSE s

\* s.trim()
trim(s) == trimEnd(trimStart(s))

\* the lower-case letter of every capital letter
LowerOf ==
    ("A" :> "a") @@ ("B" :> "b") @@ ("C" :> "c") @@ ("D" :> "d") @@ ("E" :> "e")
      @@ ("F" :> "f") @@ ("G" :> "g") @@ ("H" :> "h") @@ ("I" :> "i")
      @@ ("J" :> "j") @@ ("K" :> "k") @@ ("L" :> "l") @@ ("M" :> "m")
      @@ ("N" :> "n") @@ ("O" :> "o") @@ ("P" :> "p") @@ ("Q" :> "q")
      @@ ("R" :> "r") @@ ("S" :> "s") @@ ("T" :> "t") @@ ("U" :> "u")
      @@ ("V" :> "v") @@ ("W" :> "w") @@ ("X" :> "x") @@ ("Y" :> "y")
      @@ ("Z" :> "z")

\* s.toLowerCase(), also the folding of a case-insensitive match
RECURSIVE toLowerCase(_)
toLowerCase(s) ==
    IF Len(s) = 0 THEN ""
    ELSE IF Len(s) = 1 THEN (IF s \in DOMAIN LowerOf THEN LowerOf[s] ELSE s)
    ELSE toLowerCase(SubSeq(s, 1, Len(s) \div 2))
             \o toLowerCase(SubSeq(s, Len(s) \div 2 + 1, Len(s)))

\* s.split(sep) for a one-character separator
RECURSIVE split(_, _)
split(s, sep) ==
    LET i == indexOf(s, sep, 1)
    IN  IF i = 0 THEN <<s>>
        ELSE <<SubSeq(s, 1, i - 1)>> \o split(From(s, i + 1), sep)

\* lines.join('\n')
RECURSIVE joinLines(_)
joinLines(lines) ==
    IF lines = <<>> THEN ""
    ELSE IF Len(lines) = 1 THEN lines[1]
    ELSE lines[1] \o "\n" \o joinLines(Tail(lines))

\* s.replace(/pat/g, rep) for a literal pattern
RECURSIVE replaceAll(_, _, _)
replaceAll(s, pat, rep) ==
    LET i == indexOf(s, pat, 1)
    IN  IF i = 0 THEN s
        ELSE SubSeq(s, 1, i - 1) \o rep
                 \o replaceAll(From(s, i + Len(pat)), pat, rep)

\* s.match(/(?<=open)(.*?)(?=close)/) for a one-character close: the leftmost
\* position preceded by open from which a close is reached on the same line
lazyBetween(s, open, close) ==
    LET starts == {i \in (Len(open) + 1)..(Len(s) + 1) :
                      /\ StartsAt(s, open, i - Len(open))
                      /\ \E j \in i..Len(s) :
                            /\ Char(s, j) = close
                            /\ NoTerminator(SubSeq(s, i, j - 1))}
    IN  IF starts = {} THEN [found |-> FALSE, index |-> 0, text |-> ""]
        ELSE LET i == Min(starts)
                 j == Min({j \in i..Len(s) : Char(s, j) = close})
             IN  [found |-> TRUE, index |-> i, text |-> SubSeq(s, i, j - 1)]

-----------------------------------------------------------------------------
(* Escape decoder: parseMatchContext, src/src/utils/parser.ts *)

\* .replace(/\\([\[\](){}.*+?^$|#<>])/g, '$1')
RECURSIVE unescapeMeta(_)
unescapeMeta(s) ==
    IF Len(s) < 2 THEN s
    ELSE IF Char(s, 1) = "\\"
            /\ Char(s, 2) \in {"[", "]", "(", ")", "{", "}", ".", "*", "+", "?",
                               "^", "$", "|", "#", "<", ">"}
         THEN Char(s, 2) \o unescapeMeta(From(s, 3))
         ELSE Char(s, 1) \o unescapeMeta(From(s, 2))

\* .replace(/\n\s*\n/g, '\n'): a newline, the whitespace after it up to the
\* last newline of that whitespace run
RECURSIVE collapseBlankLines(_)
collapseBlankLines(s) ==
    LET i == indexOf(s, "\n", 1)
    IN  IF i = 0 THEN s
        ELSE LET run == {e \in i..Len(s) :
                            \A j \in (i + 1)..e : Char(s, j) \in Whitespace}
                 nls == {j \in (i + 1)..Max(run) : Char(s, j) = "\n"}
             IN  IF nls = {}
                 THEN SubSeq(s, 1, i) \o collapseBlankLines(From(s, i + 1))
                 ELSE SubSeq(s, 1, i - 1) \o "\n"
                          \o collapseBlankLines(From(s, Max(nls) + 1))

parseMatchContext(matchContext) ==
    IF matchContext = "" THEN ""
    ELSE LET s1 == replaceAll(matchContext, "\\r\\n", "\n")
             s2 == replaceAll(s1, "\\n", "\n")
             s3 == replaceAll(s2, "\\r", "\n")
             s4 == replaceAll(s3, "\\t", "\t")
             s5 == replaceAll(s4, "\\ ", " ")
             s6 == replaceAll(s5, "\\\"", "\"")
             s7 == replaceAll(s6, "\\\\", "\\")
             s8 == unescapeMeta(s7)
         IN  trim(collapseBlankLines(s8))

-----------------------------------------------------------------------------
(* Scanner record extractor, text/log path: src/src/utils/parser.ts *)

\* the value of a failed match, and of parseTextFileLine's `return null`
Null == [found |-> FALSE]

\* line.match(/^\[([^\]]+)\]/): the leading [...] with a non-empty inside
userContextOf(line) ==
    IF Char(line, 1) = "["
    THEN LET j == indexOf(line, "]", 2)
         IN  IF j >= 3 THEN SubSeq(line, 2, j - 1) ELSE ""
    ELSE ""

AllDigits(s) == \A i \in 1..Len(s) : Char(s, i) \in Digits

\* (0?[1-9]|1[012])
IsMonth(s) ==
    \/ Len(s) = 1 /\ s \in Digits \ {"0"}
    \/ Len(s) = 2 /\ Char(s, 1) = "0" /\ Char(s, 2) \in Digits \ {"0"}
    \/ Len(s) = 2 /\ Char(s, 1) = "1" /\ Char(s, 2) \in {"0", "1", "2"}

\* (0?[1-9]|[12][0-9]|3[01])
IsDay(s) ==
    \/ Len(s) = 1 /\ s \in Digits \ {"0"}
    \/ Len(s) = 2 /\ Char(s, 1) = "0" /\ Char(s, 2) \in Digits \ {"0"}
    \/ Len(s) = 2 /\ Char(s, 1) \in {"1", "2"} /\ Char(s, 2) \in Digits
    \/ Len(s) = 2 /\ Char(s, 1) = "3" /\ Char(s, 2) \in {"0", "1"}

\* the end of /\d{4}\-(month)\-(day) .*?Z/ matched at position p, 0 if none
timestampEnd(s, p) ==
    LET ends == {z \in p..Len(s) :
                    \E m \in {1, 2} : \E d \in {1, 2} :
                        /\ p + 3 <= Len(s)
                        /\ AllDigits(Slice(s, p, p + 3))
                        /\ Char(s, p + 4) = "-"
                        /\ p + 4 + m <= Len(s)
                        /\ IsMonth(Slice(s, p + 5, p + 4 + m))
                        /\ Char(s, p + 5 + m) = "-"
                        /\ p + 5 + m + d <= Len(s)
                        /\ IsDay(Slice(s, p + 6 + m, p + 5 + m + d))
                        /\ Char(s, p + 6 + m + d) = " "
                        /\ z > p + 6 + m + d
                        /\ Char(s, z) = "Z"
                        /\ NoTerminator(Slice(s, p + 7 + m + d, z - 1))}
    IN  IF ends = {} THEN 0 ELSE Min(ends)

\* line.match(/^.*\|(\d{4}\-..\-.. .*?Z)/): the greedy prefix takes the last
\* '|' of the first line after which a timestamp is matched
timestampOf(line) ==
    LET bars == {k \in 1..Len(line) :
                    /\ Char(line, k) = "|"
                    /\ NoTerminator(SubSeq(line, 1, k - 1))
                    /\ timestampEnd(line, k + 1) # 0}
    IN  IF bars = {} THEN ""
        ELSE SubSeq(line, Max(bars) + 1, timestampEnd(line, Max(bars) + 1))

\* the unit (?:B|kB|MB|GB) at position p: its length, 0 if none
unitLen(s, p) ==
    IF Char(s, p) = "B" THEN 1
    ELSE IF Char(s, p) \in {"k", "M", "G"} /\ Char(s, p + 1) = "B" THEN 2
    ELSE 0

\* the last position of the run of digits that starts at p
digitsEnd(s, p) ==
    Max({e \in p..Len(s) : AllDigits(Slice(s, p, e))})

\* the end of /\d+(?:\.\d+)?(?:B|kB|MB|GB)/ matched at position p, 0 if none
sizeEnd(s, p) ==
    IF Char(s, p) \notin Digits THEN 0
    ELSE LET e == digitsEnd(s, p)
         IN  IF Char(s, e + 1) = "." /\ Char(s, e + 2) \in Digits
             THEN LET f == digitsEnd(s, e + 2)
                  IN  IF unitLen(s, f + 1) > 0
                      THEN f + unitLen(s, f + 1) ELSE 0
             ELSE IF unitLen(s, e + 1) > 0
                  THEN e + unitLen(s, e + 1) ELSE 0

\* variant of sizeOf: rule details without a size token give "0"
sizeOf_zero(ruleDetails) ==
    LET hits == {p \in 1..Len(ruleDetails) : sizeEnd(ruleDetails, p) # 0}
    IN  IF hits = {} THEN "0"
        ELSE SubSeq(ruleDetails, Min(hits), sizeEnd(ruleDetails, Min(hits)))

\* ruleDetails.match(/(\d+(?:\.\d+)?(?:B|kB|MB|GB))/), '' when it fails
sizeOf(ruleDetails) ==
    LET hits == {p \in 1..Len(ruleDetails) : sizeEnd(ruleDetails, p) # 0}
    IN  IF hits = {} THEN ""
        ELSE SubSeq(ruleDetails, Min(hits), sizeEnd(ruleDetails, Min(hits)))

\* fullPath.split('\\') and its last part
fileNameOf(fullPath) ==
    LET pathParts == split(fullPath, "\\") IN pathParts[Len(pathParts)]

\* variant of matchContextOf: the text after the path stops at the next '<'
matchContextOf_untilRule(line) ==
    LET pathEndMatch == lazyBetween(line, ">(", ")")
        pathEndIndex == indexOf(line, pathEndMatch.text, indexOf(line, ">(", 1))
        afterPath    == From(line, pathEndIndex + Len(pathEndMatch.text) + 1)
        ruleStart    == indexOf(afterPath, "<", 1)
    IN  IF pathEndMatch.found /\ pathEndIndex # 0 /\ afterPath # ""
        THEN parseMatchContext(trim(IF ruleStart = 0 THEN afterPath
                                    ELSE SubSeq(afterPath, 1, ruleStart - 1)))
        ELSE ""

\* the text after the closing parenthesis of the path, decoded
matchContextOf(line) ==
    LET pathEndMatch == lazyBetween(line, ">(", ")")
        pathEndIndex == indexOf(line, pathEndMatch.text, indexOf(line, ">(", 1))
        afterPath    == From(line, pathEndIndex + Len(pathEndMatch.text) + 1)
    IN  IF pathEndMatch.found /\ pathEndIndex # 0 /\ afterPath # ""
        THEN parseMatchContext(trim(afterPath))
        ELSE ""

parseTextFileLine(line) ==
    LET ratingMatch      == lazyBetween(line, "{", "}")
        fullPathMatch    == lazyBetween(line, ">(", ")")
        ruleDetailsMatch == lazyBetween(line, "<", ">")
        lastModified     == timestampOf(line)
        matchContext     == matchContextOf(line)
    IN  IF ~ratingMatch.found THEN Null
        ELSE IF ~fullPathMatch.found THEN Null
        ELSE [found          |-> TRUE,
              rating         |-> ratingMatch.text,
              fullPath       |-> fullPathMatch.text,
              fileName       |-> fileNameOf(fullPathMatch.text),
              creationTime   |-> lastModified,
              lastModified   |-> lastModified,
              size           |-> IF ruleDetailsMatch.found
                                 THEN sizeOf(ruleDetailsMatch.text) ELSE "",
              matchContext   |-> matchContext,
              ruleName       |-> IF ruleDetailsMatch.found
                                 THEN split(ruleDetailsMatch.text, "|")[1]
                                 ELSE "",
              matchedStrings |-> <<matchContext>>,
              triage         |-> ratingMatch.text,
              userContext    |-> userContextOf(line)]

\* the FileResult object that a successful parseTextFileLine returns
Finding(r) ==
    [f \in DOMAIN r \ {"found"} |-> r[f]]

\* variant of extractFileLines: a line that parseTextFileLine rejects ends
\* the extraction instead of being skipped
RECURSIVE extractFileLines_abort(_)
extractFileLines_abort(lines) ==
    IF lines = <<>> THEN <<>>
    ELSE LET line   == Head(lines)
             result == parseTextFileLine(line)
         IN  IF trim(line) # "" /\ includes(line, "[File]")
             THEN IF result.found
                  THEN <<Finding(result)>> \o extractFileLines_abort(Tail(lines))
                  ELSE <<>>
             ELSE extractFileLines_abort(Tail(lines))

\* the loop of parseSnafflerText over the lines
RECURSIVE extractFileLines(_)
extractFileLines(lines) ==
    IF lines = <<>> THEN <<>>
    ELSE LET line   == Head(lines)
             result == parseTextFileLine(line)
         IN  IF trim(line) # "" /\ includes(line, "[File]") /\ result.found
             THEN <<Finding(result)>> \o extractFileLines(Tail(lines))
             ELSE extractFileLines(Tail(lines))

-----------------------------------------------------------------------------
(* Deduplicator / merger: src/src/utils/parser.ts *)

\* the template-literal key `${fullPath}|${rating}|${ruleName}`
uniqueKey(result) ==
    result.fullPath \o "|" \o result.rating \o "|" \o result.ruleName

\* removeDuplicates: keep the first record of every key, in input order
RECURSIVE removeDuplicatesFrom(_, _, _)
removeDuplicatesFrom(rs, seen, uniqueResults) ==
    IF rs = <<>> THEN uniqueResults
    ELSE LET result == Head(rs)
             key    == uniqueKey(result)
         IN  IF key \notin seen
             THEN removeDuplicatesFrom(Tail(rs), seen \cup {key},
                                       Append(uniqueResults, result))
             ELSE removeDuplicatesFrom(Tail(rs), seen, uniqueResults)

removeDuplicates(rs) == removeDuplicatesFrom(rs, {}, <<>>)

\* priorityOrder[rating] || 0
priorityOrder(rating) ==
    CASE rating = "Red"    -> 4
      [] rating = "Yellow" -> 3
      [] rating = "Green"  -> 2
      [] rating = "Black"  -> 1
      [] OTHER             -> 0

\* The Map<string, FileResult> keyed by fullPath is the sequence of its
\* values in insertion order; Map.set on a present key keeps its position.
mapHas(fileMap, path) == \E i \in 1..Len(fileMap) : fileMap[i].fullPath = path

mapIndex(fileMap, path) ==
    CHOOSE i \in 1..Len(fileMap) : fileMap[i].fullPath = path

mapSet(fileMap, path, value) ==
    IF mapHas(fileMap, path)
    THEN [fileMap EXCEPT ![mapIndex(fileMap, path)] = value]
    ELSE Append(fileMap, value)

\* variant of priorityStep: an equal-rank record with another rule name is
\* stored as a further entry instead of being merged into the kept one
priorityStep_keepBoth(fileMap, result) ==
    IF ~mapHas(fileMap, result.fullPath)
    THEN Append(fileMap, result)
    ELSE LET existing == fileMap[mapIndex(fileMap, result.fullPath)]
         IN  IF priorityOrder(result.rating) > priorityOrder(existing.rating)
             THEN mapSet(fileMap, result.fullPath, result)
             ELSE IF priorityOrder(result.rating) = priorityOrder(existing.rating)
                     /\ result.ruleName # existing.ruleName
                  THEN Append(fileMap, result)
                  ELSE fileMap

\* variant of priorityStep: the combined record spreads the new record
\* ({...result, ruleName}) instead of the kept one
priorityStep_spreadNew(fileMap, result) ==
    IF ~mapHas(fileMap, result.fullPath)
    THEN Append(fileMap, result)
    ELSE LET existing == fileMap[mapIndex(fileMap, result.fullPath)]
         IN  IF priorityOrder(result.rating) > priorityOrder(existing.rating)
             THEN mapSet(fileMap, result.fullPath, result)
             ELSE IF priorityOrder(result.rating) = priorityOrder(existing.rating)
                     /\ result.ruleName # existing.ruleName
                  THEN mapSet(fileMap, result.fullPath,
                              [result EXCEPT !.ruleName =
                                  existing.ruleName \o ", " \o result.ruleName])
                  ELSE fileMap

\* one iteration of the loop of removePriorityDuplicates
priorityStep(fileMap, result) ==
    IF ~mapHas(fileMap, result.fullPath)
    THEN mapSet(fileMap, result.fullPath, result)
    ELSE LET existing         == fileMap[mapIndex(fileMap, result.fullPath)]
             existingPriority == priorityOrder(existing.rating)
             newPriority      == priorityOrder(result.rating)
         IN  IF newPriority > existingPriority
             THEN mapSet(fileMap, result.fullPath, result)
             ELSE IF newPriority = existingPriority
                     /\ result.ruleName # existing.ruleName
                  THEN mapSet(fileMap, result.fullPath,
                              [existing EXCEPT !.ruleName =
                                  existing.ruleName \o ", " \o result.ruleName])
                  ELSE fileMap

RECURSIVE priorityFold(_, _)
priorityFold(rs, fileMap) ==
    IF rs = <<>> THEN fileMap
    ELSE priorityFold(Tail(rs), priorityStep(fileMap, Head(rs)))

\* removePriorityDuplicates: Array.from(fileMap.values())
removePriorityDuplicates(rs) == priorityFold(rs, <<>>)

\* variant of getDuplicateStats: the counts are taken in the other order
getDuplicateStats_swapped(originalCount, finalCount) ==
    LET duplicatesRemoved == finalCount - originalCount
    IN  [originalCount     |-> finalCount,
         finalCount        |-> originalCount,
         duplicatesRemoved |-> duplicatesRemoved,
         duplicatePercentageX100 |->
             IF finalCount > 0
             THEN (2 * duplicatesRemoved * 10000 + finalCount) \div (2 * finalCount)
             ELSE 0]

\* Math.round(x * 100) / 100 of a percentage, kept in hundredths of a percent
getDuplicateStats(originalCount, finalCount) ==
    LET duplicatesRemoved == originalCount - finalCount
    IN  [originalCount     |-> originalCount,
         finalCount        |-> finalCount,
         duplicatesRemoved |-> duplicatesRemoved,
         duplicatePercentageX100 |->
             IF originalCount > 0
             THEN (2 * duplicatesRemoved * 10000 + originalCount)
                      \div (2 * originalCount)
             ELSE 0]

\* sortResults: ratingOrder[rating] || 0, the display/sort ranking
ratingOrder(rating) ==
    CASE rating = "Black"  -> 4
      [] rating = "Red"    -> 3
      [] rating = "Yellow" -> 2
      [] rating = "Green"  -> 1
      [] OTHER             -> 0

-----------------------------------------------------------------------------
(* Scanner record extractor, JSON path: src/src/utils/parser.ts *)

\* obj[key] || dflt, for a value that is absent or a non-empty string
OrElse(obj, key, dflt) ==
    IF key \in DOMAIN obj /\ obj[key] # "" THEN obj[key] ELSE dflt

\* the order of colorKeys in parseJsonFileEntry
colorKeys == <<"Red", "Green", "Yellow", "Black">>

\* the FileResult built from eventProperties[colorKey].FileResult
jsonFileResult(colorKey, fileResult) ==
    LET FileInfo    == fileResult.FileInfo
        TextResult  == fileResult.TextResult
        MatchedRule == fileResult.MatchedRule
    IN  [rating         |-> colorKey,
         fullPath       |-> OrElse(FileInfo, "FullName", ""),
         fileName       |-> OrElse(FileInfo, "Name", ""),
         creationTime   |-> OrElse(FileInfo, "CreationTimeUtc",
                                OrElse(FileInfo, "CreationTime", "")),
         lastModified   |-> OrElse(FileInfo, "LastWriteTimeUtc",
                                OrElse(FileInfo, "LastWriteTime", "")),
         size           |-> IF "Length" \in DOMAIN FileInfo
                            THEN ToString(FileInfo.Length) ELSE "0",
         matchContext   |-> parseMatchContext(OrElse(TextResult, "MatchContext", "")),
         ruleName       |-> OrElse(MatchedRule, "RuleName", ""),
         matchedStrings |-> IF "MatchedStrings" \in DOMAIN TextResult
                            THEN TextResult.MatchedStrings ELSE <<>>,
         triage         |-> OrElse(MatchedRule, "Triage", ""),
         rwStatus       |-> IF "RwStatus" \in DOMAIN fileResult
                            THEN [defined    |-> TRUE,
                                  readable   |-> fileResult.RwStatus.CanRead,
                                  writable   |-> fileResult.RwStatus.CanWrite,
                                  executable |-> FALSE,
                                  deleteable |-> fileResult.RwStatus.CanModify]
                            ELSE [defined |-> FALSE]]

\* Case 1 of parseJsonFileEntry: the loop over colorKeys
RECURSIVE jsonColorResults(_, _)
jsonColorResults(eventProps, keys) ==
    IF keys = <<>> THEN <<>>
    ELSE LET colorKey == Head(keys)
             admitted ==
                 /\ colorKey \in DOMAIN eventProps
                 /\ "FileResult" \in DOMAIN eventProps[colorKey]
                 /\ {"FileInfo", "TextResult", "MatchedRule"}
                        \subseteq DOMAIN eventProps[colorKey].FileResult
         IN  (IF admitted
              THEN <<jsonFileResult(colorKey, eventProps[colorKey].FileResult)>>
              ELSE <<>>)
             \o jsonColorResults(eventProps, Tail(keys))

\* variant of parseJsonFileEntry: the message of an entry with an empty
\* payload is not parsed
parseJsonFileEntry_payloadOnly(entry) ==
    IF "eventProperties" \notin DOMAIN entry THEN <<>>
    ELSE jsonColorResults(entry.eventProperties, colorKeys)

\* an entry without eventProperties makes Object.keys throw; the catch of
\* parseJsonFileEntry returns the empty list
parseJsonFileEntry(entry) ==
    IF "eventProperties" \notin DOMAIN entry THEN <<>>
    ELSE LET eventProps == entry.eventProperties
         IN  IF DOMAIN eventProps # {}
             THEN jsonColorResults(eventProps, colorKeys)
             ELSE IF includes(entry.message, "[File]")
                     /\ parseTextFileLine(entry.message).found
                  THEN <<Finding(parseTextFileLine(entry.message))>>
                  ELSE <<>>

\* the loop of parseSnafflerJson over jsonData.entries
RECURSIVE extractJsonEntries(_)
extractJsonEntries(entries) ==
    IF entries = <<>> THEN <<>>
    ELSE LET entry == Head(entries)
         IN  (IF entry.level = "Warn" /\ includes(entry.message, "[File]")
              THEN parseJsonFileEntry(entry) ELSE <<>>)
             \o extractJsonEntries(Tail(entries))

-----------------------------------------------------------------------------
(* parseSnafflerJson, parseSnafflerText, parseSnafflerData *)

\* the findings before deduplication
extractResults(d, type) ==
    IF type = "json" THEN extractJsonEntries(d.entries)
    ELSE extractFileLines(split(d, "\n"))

\* the message of the Error that parseSnafflerData throws
EmptyOrInvalidInput ==
    "Not a valid Snaffler output file, or the file is empty. Please check the file content and try again."

\* variant of parseSnafflerDataThrows: an empty result is returned as a success
parseSnafflerDataThrows_never(parseResults) == FALSE

\* parseSnafflerData: the condition of its throw,
\* !parseResult || parseResult.results.length === 0
parseSnafflerDataThrows(parseResults) == Len(parseResults) = 0

-----------------------------------------------------------------------------
(* Share extractor: src/src/utils/parser.ts *)

\* s.substring(a, b) with 0-based a and b: clamped, and swapped when a > b
substring(s, a, b) ==
    LET clamp(x) == IF x < 0 THEN 0 ELSE IF x > Len(s) THEN Len(s) ELSE x
        lo == IF clamp(a) <= clamp(b) THEN clamp(a) ELSE clamp(b)
        hi == IF clamp(a) <= clamp(b) THEN clamp(b) ELSE clamp(a)
    IN  IF lo = hi THEN "" ELSE SubSeq(s, lo + 1, hi)

\* the characters \w matches
WordChars ==
    DOMAIN LowerOf \cup {LowerOf[c] : c \in DOMAIN LowerOf} \cup Digits \cup {"_"}

\* /\\\\([^\\]+)\\([^\\]+)/ matches at position i
pathMatchAt(s, i) ==
    /\ StartsAt(s, "\\\\", i)
    /\ LET e == runEnd(s, i + 2, {"\\"}, FALSE)
       IN  /\ e >= i + 2
           /\ Char(s, e + 1) = "\\"
           /\ runEnd(s, e + 2, {"\\"}, FALSE) >= e + 2

\* s.match(/\\\\([^\\]+)\\([^\\]+)/): the leftmost match and its two groups
pathMatchOf(s) ==
    LET hits == {i \in 1..Len(s) : pathMatchAt(s, i)}
    IN  IF hits = {} THEN Null
        ELSE LET i == Min(hits)
                 e == runEnd(s, i + 2, {"\\"}, FALSE)
             IN  [found     |-> TRUE,
                  systemId  |-> SubSeq(s, i + 2, e),
                  shareName |-> SubSeq(s, e + 2, runEnd(s, e + 2, {"\\"}, FALSE))]

\* obj[key] || false for a flag that is absent or a boolean
OrFalse(obj, key) == IF key \in DOMAIN obj THEN obj[key] ELSE FALSE

\* the ShareResult built from eventProperties[colorKey].ShareResult
jsonShareResult(colorKey, shareResult) ==
    LET pathMatch == pathMatchOf(shareResult.SharePath)
    IN  [rating         |-> colorKey,
         sharePath      |-> shareResult.SharePath,
         shareName      |-> IF pathMatch.found THEN pathMatch.shareName ELSE "",
         systemId       |-> IF pathMatch.found THEN pathMatch.systemId ELSE "",
         shareComment   |-> OrElse(shareResult, "ShareComment", ""),
         listable       |-> OrFalse(shareResult, "Listable"),
         rootWritable   |-> OrFalse(shareResult, "RootWritable"),
         rootReadable   |-> OrFalse(shareResult, "RootReadable"),
         rootModifyable |-> OrFalse(shareResult, "RootModifyable"),
         snaffle        |-> OrFalse(shareResult, "Snaffle"),
         scanShare      |-> OrFalse(shareResult, "ScanShare"),
         triage         |-> OrElse(shareResult, "Triage", colorKey)]

\* the loop of parseJsonShareEntry over colorKeys
RECURSIVE jsonShareResults(_, _)
jsonShareResults(eventProps, keys) ==
    IF keys = <<>> THEN <<>>
    ELSE LET colorKey == Head(keys)
             admitted ==
                 /\ colorKey \in DOMAIN eventProps
                 /\ "ShareResult" \in DOMAIN eventProps[colorKey]
                 /\ "SharePath" \in DOMAIN eventProps[colorKey].ShareResult
                 /\ eventProps[colorKey].ShareResult.SharePath # ""
         IN  (IF admitted
              THEN <<jsonShareResult(colorKey, eventProps[colorKey].ShareResult)>>
              ELSE <<>>)
             \o jsonShareResults(eventProps, Tail(keys))

\* an entry without eventProperties makes the first lookup throw; the catch
\* of parseJsonShareEntry returns the empty list
parseJsonShareEntry(entry) ==
    IF "eventProperties" \notin DOMAIN entry THEN <<>>
    ELSE jsonShareResults(entry.eventProperties, colorKeys)

\* parseSnafflerShares: the loop over jsonData.entries
RECURSIVE parseSnafflerShares(_)
parseSnafflerShares(entries) ==
    IF entries = <<>> THEN <<>>
    ELSE LET entry == Head(entries)
         IN  (IF entry.level = "Warn" /\ includes(entry.message, "[Share]")
              THEN parseJsonShareEntry(entry) ELSE <<>>)
             \o parseSnafflerShares(Tail(entries))

\* shareSection.match(/^\{(\w+)\}/)
shareRatingOf(shareSection) ==
    LET close == indexOf(shareSection, "}", 2)
    IN  IF /\ Char(shareSection, 1) = "{"
           /\ close >= 3
           /\ \A k \in 2..(close - 1) : Char(shareSection, k) \in WordChars
        THEN [found |-> TRUE, text |-> SubSeq(shareSection, 2, close - 1)]
        ELSE Null

\* afterShare.match(/\(([RWMF]+)\)$/): the letters of a trailing (...)
permMatchOf(afterShare) ==
    LET n     == Len(afterShare)
        opens == {o \in 1..(n - 2) :
                     /\ Char(afterShare, o) = "("
                     /\ \A k \in (o + 1)..(n - 1) :
                            Char(afterShare, k) \in {"R", "W", "M", "F"}}
    IN  IF Char(afterShare, n) = ")" /\ opens # {}
        THEN [found |-> TRUE, text |-> SubSeq(afterShare, Min(opens) + 1, n - 1)]
        ELSE Null

\* afterShare.replace(/\([RWMF]\)$/, '')
dropPermission(afterShare) ==
    LET n == Len(afterShare)
    IN  IF /\ n >= 3
           /\ Char(afterShare, n) = ")"
           /\ Char(afterShare, n - 1) \in {"R", "W", "M", "F"}
           /\ Char(afterShare, n - 2) = "("
        THEN SubSeq(afterShare, 1, n - 3)
        ELSE afterShare

parseTextShareLine(line) ==
    LET shareMarkerIndex == indexOf(line, "[Share]", 1)
        shareSection     == trim(From(line, shareMarkerIndex + 7))
        ratingMatch      == shareRatingOf(shareSection)
        shareStartIndex  == indexOf(shareSection, "<", 1)
        shareEndIndex    == indexOf(shareSection, ">", 1)
        shareDetails     == substring(shareSection, shareStartIndex, shareEndIndex - 1)
        shareParts       == split(shareDetails, "|")
        shareName        == IF Len(shareParts) >= 3 THEN shareParts[1] ELSE ""
        shareType        == IF Len(shareParts) >= 3 THEN shareParts[2] ELSE ""
        sharePath        == IF Len(shareParts) >= 3 THEN shareParts[3] ELSE ""
        pathMatch        == pathMatchOf(sharePath)
        afterShare       == trim(From(shareSection, shareEndIndex + 1))
        permMatch        == permMatchOf(afterShare)
        perms            == IF permMatch.found THEN permMatch.text ELSE ""
    IN  IF shareMarkerIndex = 0 THEN Null
        ELSE IF ~ratingMatch.found THEN Null
        ELSE IF shareStartIndex = 0 \/ shareEndIndex = 0 THEN Null
        ELSE [found          |-> TRUE,
              rating         |-> ratingMatch.text,
              sharePath      |-> sharePath,
              shareName      |-> IF pathMatch.found THEN pathMatch.shareName
                                 ELSE shareName,
              systemId       |-> IF pathMatch.found THEN pathMatch.systemId ELSE "",
              shareComment   |-> IF afterShare # ""
                                 THEN trim(dropPermission(afterShare)) ELSE "",
              listable       |-> shareType = "R",
              rootWritable   |-> includes(perms, "W"),
              rootReadable   |-> includes(perms, "R") \/ shareType = "R",
              rootModifyable |-> includes(perms, "M"),
              snaffle        |-> FALSE,
              scanShare      |-> FALSE,
              triage         |-> ratingMatch.text,
              userContext    |-> userContextOf(line)]

\* parseSnafflerSharesText: the loop over the lines
RECURSIVE extractShareLines(_)
extractShareLines(lines) ==
    IF lines = <<>> THEN <<>>
    ELSE LET line   == Head(lines)
             result == parseTextShareLine(line)
         IN  IF trim(line) # "" /\ includes(line, "[Share]") /\ result.found
             THEN <<Finding(result)>> \o extractShareLines(Tail(lines))
             ELSE extractShareLines(Tail(lines))

parseSnafflerSharesText(textData) == extractShareLines(split(textData, "\n"))

\* The Map shareMap is the sequence of its values in insertion order, each
\* value holding its key as path; 0 when the key is absent
shareMapIndex(shareMap, key) ==
    IF \E i \in 1..Len(shareMap) : shareMap[i].path = key
    THEN CHOOSE i \in 1..Len(shareMap) : shareMap[i].path = key
    ELSE 0

\* Set.add on the permissions, a Set kept in insertion order
addPermission(permissions, flag, permission) ==
    IF flag /\ permission \notin Range(permissions)
    THEN Append(permissions, permission) ELSE permissions

\* variant of shareEntryStep: every record enters the map anew
shareEntryStep_append(shareMap, share) ==
    Append(shareMap,
           [path           |-> share.systemId \o "\\" \o share.shareName,
            systemId       |-> share.systemId,
            shareName      |-> share.shareName,
            fileCount      |-> 0,
            permissions    |-> addPermission(
                                   addPermission(
                                       addPermission(<<>>, share.rootReadable, "Read"),
                                       share.rootWritable, "Write"),
                                   share.rootModifyable, "Modify"),
            shareComment   |-> share.shareComment,
            listable       |-> share.listable,
            rootWritable   |-> share.rootWritable,
            rootReadable   |-> share.rootReadable,
            rootModifyable |-> share.rootModifyable,
            snaffle        |-> share.snaffle,
            scanShare      |-> share.scanShare,
            rating         |-> share.rating])

\* first loop of parseShareData: one record of a [Share] entry or line
shareEntryStep(shareMap, share) ==
    LET key     == share.systemId \o "\\" \o share.shareName
        entered == IF shareMapIndex(shareMap, key) # 0 THEN shareMap
                   ELSE Append(shareMap,
                            [path           |-> key,
                             systemId       |-> share.systemId,
                             shareName      |-> share.shareName,
                             fileCount      |-> 0,
                             permissions    |-> <<>>,
                             shareComment   |-> share.shareComment,
                             listable       |-> share.listable,
                             rootWritable   |-> share.rootWritable,
                             rootReadable   |-> share.rootReadable,
                             rootModifyable |-> share.rootModifyable,
                             snaffle        |-> share.snaffle,
                             scanShare      |-> share.scanShare,
                             rating         |-> share.rating])
        i             == shareMapIndex(entered, key)
        existingShare == entered[i]
    IN  [entered EXCEPT ![i] =
            [existingShare EXCEPT
                !.permissions =
                    addPermission(
                        addPermission(
                            addPermission(existingShare.permissions,
                                          share.rootReadable, "Read"),
                            share.rootWritable, "Write"),
                        share.rootModifyable, "Modify"),
                !.shareComment =
                    IF share.shareComment # "" /\ existingShare.shareComment = ""
                    THEN share.shareComment ELSE existingShare.shareComment]]

\* second loop of parseShareData: one file finding
shareFileStep(shareMap, fileResult) ==
    LET pathMatch == pathMatchOf(fileResult.fullPath)
        key       == pathMatch.systemId \o "\\" \o pathMatch.shareName
        entered   == IF shareMapIndex(shareMap, key) # 0 THEN shareMap
                     ELSE Append(shareMap,
                              [path           |-> key,
                               systemId       |-> pathMatch.systemId,
                               shareName      |-> pathMatch.shareName,
                               fileCount      |-> 0,
                               permissions    |-> <<>>,
                               shareComment   |-> "",
                               listable       |-> FALSE,
                               rootWritable   |-> FALSE,
                               rootReadable   |-> FALSE,
                               rootModifyable |-> FALSE,
                               snaffle        |-> FALSE,
                               scanShare      |-> FALSE,
                               rating         |-> "Unknown"])
        i         == shareMapIndex(entered, key)
    IN  IF ~pathMatch.found THEN shareMap
        ELSE [entered EXCEPT ![i] =
                 [entered[i] EXCEPT
                     !.fileCount   = entered[i].fileCount + 1,
                     !.permissions = addPermission(entered[i].permissions,
                                                   TRUE, "Read")]]

RECURSIVE shareEntryFold(_, _)
shareEntryFold(shares, shareMap) ==
    IF shares = <<>> THEN shareMap
    ELSE shareEntryFold(Tail(shares), shareEntryStep(shareMap, Head(shares)))

RECURSIVE shareFileFold(_, _)
shareFileFold(fileResults, shareMap) ==
    IF fileResults = <<>> THEN shareMap
    ELSE shareFileFold(Tail(fileResults), shareFileStep(shareMap, Head(fileResults)))

\* Array.from(share.permissions).join(', ')
RECURSIVE joinPermissions(_)
joinPermissions(permissions) ==
    IF permissions = <<>> THEN ""
    ELSE IF Len(permissions) = 1 THEN permissions[1]
    ELSE permissions[1] \o ", " \o joinPermissions(Tail(permissions))

\* the ratingOrder of the sort of parseShareData, `|| 0` for any other rating
shareRatingOrder(rating) ==
    CASE rating = "Red"    -> 4
      [] rating = "Yellow" -> 3
      [] rating = "Green"  -> 2
      [] rating = "Black"  -> 1
      [] OTHER             -> 0

\* the comparator of shares.sort is negative: a is placed before b
shareBefore(a, b) ==
    IF b.fileCount # a.fileCount THEN a.fileCount > b.fileCount
    ELSE shareRatingOrder(a.rating) > shareRatingOrder(b.rating)

\* Array.prototype.sort is stable: a share goes before the first share that
\* the comparator places after it
RECURSIVE sortShares(_, _)
sortShares(shares, sorted) ==
    IF shares = <<>> THEN sorted
    ELSE LET share  == Head(shares)
             later  == {i \in 1..Len(sorted) : shareBefore(share, sorted[i])}
             at     == IF later = {} THEN Len(sorted) + 1 ELSE Min(later)
         IN  sortShares(Tail(shares),
                        SubSeq(sorted, 1, at - 1) \o <<share>>
                            \o SubSeq(sorted, at, Len(sorted)))

\* parseShareData, given the findings and the share records it extracts
parseShareData(fileResults, extractedShares) ==
    LET shareMap == shareFileFold(fileResults, shareEntryFold(extractedShares, <<>>))
        shares   == [i \in 1..Len(shareMap) |->
                        [shareMap[i] EXCEPT
                            !.permissions = joinPermissions(shareMap[i].permissions)]]
    IN  sortShares(shares, <<>>)

-----------------------------------------------------------------------------
(* Policy-report parser: src/src/utils/GPOParser.ts *)

\* an optional value: undefined, or the value v
undefined == <<>>

Some(v) == <<v>>

\* raw.split(/\r?\n/): the pieces between "\n", each piece before a "\n"
\* without the "\r" that ends it
RECURSIVE splitLines(_)
splitLines(raw) ==
    LET i == indexOf(raw, "\n", 1)
    IN  IF i = 0 THEN <<raw>>
        ELSE <<IF Char(raw, i - 1) = "\r" THEN SubSeq(raw, 1, i - 2)
               ELSE SubSeq(raw, 1, i - 1)>>
                 \o splitLines(From(raw, i + 1))

\* A JavaScript object written key by key is the sequence of its properties
\* [key, value] in insertion order; writing a present key keeps its place.
propIndex(obj, key) ==
    IF \E i \in 1..Len(obj) : obj[i].key = key
    THEN CHOOSE i \in 1..Len(obj) : obj[i].key = key
    ELSE 0

propSet(obj, key, value) ==
    IF propIndex(obj, key) # 0
    THEN [obj EXCEPT ![propIndex(obj, key)].value = value]
    ELSE Append(obj, [key |-> key, value |-> value])

\* obj[key] || dflt for string values
propOr(obj, key, dflt) ==
    IF propIndex(obj, key) # 0 /\ obj[propIndex(obj, key)].value # ""
    THEN obj[propIndex(obj, key)].value ELSE dflt

\* l.match(/^(.*?)\s*\[(Info|Finish)\]\s*(.*)$/) with the prefix (.*?) of
\* length t: the marker follows the white space after the prefix, and the
\* text after the marker and its white space runs to the end of the string
infoMatchAt(l, t) ==
    LET k == runEnd(l, t + 1, Whitespace, TRUE) + 1
        level == IF StartsAt(l, "[Info]", k) THEN "Info"
                 ELSE IF StartsAt(l, "[Finish]", k) THEN "Finish" ELSE ""
        after == runEnd(l, k + Len(level) + 2, Whitespace, TRUE) + 1
    IN  [found |-> /\ NoTerminator(SubSeq(l, 1, t))
                   /\ level # ""
                   /\ runEnd(l, after, LineTerminators, FALSE) = Len(l),
         ts    |-> SubSeq(l, 1, t),
         level |-> level,
         rest  |-> From(l, after)]

\* the lazy prefix: the shortest one for which the pattern matches
infoMatch(l) ==
    LET ts == {t \in 0..Len(l) : infoMatchAt(l, t).found}
    IN  IF ts = {} THEN Null ELSE infoMatchAt(l, Min(ts))

\* the start of the group in \s*(.+) or \s+(.+) when the white space, at
\* least `least` characters of it, begins at position a; 0 if there is no
\* match: the white space is taken greedily and given back only at the end of
\* the string
groupAfterSpace(s, a, least) ==
    LET b == runEnd(s, a, Whitespace, TRUE)
        given == {p \in (a + least)..b : Char(s, p) \notin LineTerminators}
    IN  IF b - a + 1 < least THEN 0
        ELSE IF b < Len(s) THEN b + 1
        ELSE IF given = {} THEN 0 ELSE Max(given)

\* tail.match(/Finished at\s+(.+)/i), its group trimmed
finishedAtOf(tail) ==
    LET low  == toLowerCase(tail)
        hits == {i \in 1..Len(tail) : /\ StartsAt(low, "finished at", i)
                                      /\ groupAfterSpace(tail, i + 11, 1) # 0}
    IN  IF hits = {} THEN undefined
        ELSE LET g == groupAfterSpace(tail, Min(hits) + 11, 1)
             IN  Some(trim(SubSeq(tail, g, runEnd(tail, g, LineTerminators, FALSE))))

\* tail.match(/GPOin' took\s+([\d:.]+)/i), its group trimmed
durationOf(tail) ==
    LET low  == toLowerCase(tail)
        hits == {i \in 1..Len(tail) :
                    /\ StartsAt(low, "gpoin' took", i)
                    /\ runEnd(tail, i + 11, Whitespace, TRUE) >= i + 11
                    /\ runEnd(tail, runEnd(tail, i + 11, Whitespace, TRUE) + 1,
                              Digits \cup {":", "."}, TRUE)
                           > runEnd(tail, i + 11, Whitespace, TRUE)}
    IN  IF hits = {} THEN undefined
        ELSE LET g == runEnd(tail, Min(hits) + 11, Whitespace, TRUE) + 1
             IN  Some(SubSeq(tail, g, runEnd(tail, g, Digits \cup {":", "."}, TRUE)))

\* the pre-pass of parseGPO over the lines: info, finishedAt and duration
RECURSIVE collectInfo(_, _, _)
collectInfo(raw, lines, acc) ==
    IF lines = <<>> THEN acc
    ELSE LET l == Head(lines)
             m == infoMatch(l)
             \* raw.slice(raw.indexOf(l)).split(/\r?\n/).slice(0, 5).join("\n")
             after == splitLines(From(raw, indexOf(raw, l, 1)))
             tail == joinLines(SubSeq(after, 1, Min({5, Len(after)})))
         IN  IF ~(includes(l, "[Info]") \/ includes(l, "[Finish]"))
             THEN collectInfo(raw, Tail(lines), acc)
             ELSE IF ~m.found
             THEN collectInfo(raw, Tail(lines),
                      [acc EXCEPT !.info = Append(@, [raw |-> l])])
             ELSE collectInfo(raw, Tail(lines),
                      [info |-> Append(acc.info,
                                    [raw       |-> l,
                                     timestamp |-> trim(m.ts),
                                     level     |-> m.level,
                                     message   |-> IF trim(m.rest) = "" THEN undefined
                                                   ELSE Some(trim(m.rest))]),
                       finishedAt |-> IF m.level = "Finish"
                                         /\ finishedAtOf(tail) # undefined
                                      THEN finishedAtOf(tail) ELSE acc.finishedAt,
                       duration   |-> IF m.level = "Finish"
                                         /\ durationOf(tail) # undefined
                                      THEN durationOf(tail) ELSE acc.duration])

\* /^\s*\|.*\|\s*$/.test(s)
isTableRow(s) ==
    LET t == trim(s)
    IN  /\ Len(t) >= 2
        /\ Char(t, 1) = "|"
        /\ Char(t, Len(t)) = "|"
        /\ NoTerminator(SubSeq(t, 2, Len(t) - 1))

\* /^\s*\|\s*-{2,}\s*\|/.test(s)
isSeparator(s) ==
    LET bar    == runEnd(s, 1, Whitespace, TRUE) + 1
        dashes == runEnd(s, bar + 1, Whitespace, TRUE) + 1
        last   == runEnd(s, dashes, {"-"}, TRUE)
    IN  /\ Char(s, bar) = "|"
        /\ last >= dashes + 1
        /\ Char(s, runEnd(s, last + 1, Whitespace, TRUE) + 1) = "|"

\* /^\s*\\___/.test(s)
isBlockFence(s) == StartsAt(s, "\\___", runEnd(s, 1, Whitespace, TRUE) + 1)

\* the cells of one table row:
\* line.trim().replace(/^\|/, "").replace(/\|\s*$/, "").split(/\|/).map(trim)
cellsOf(line) ==
    LET t     == trim(line)
        inner == SubSeq(t, 2, Len(t) - 1)
        parts == split(inner, "|")
    IN  [c \in 1..Len(parts) |-> trim(parts[c])]

\* parseTableRows: the rows of the table lines that are not separators
RECURSIVE parseTableRows(_)
parseTableRows(tableLines) ==
    IF tableLines = <<>> THEN <<>>
    ELSE LET line == Head(tableLines)
         IN  (IF isTableRow(line) /\ ~isSeparator(line)
              THEN <<cellsOf(line)>> ELSE <<>>)
             \o parseTableRows(Tail(tableLines))

\* variant of joinValue: only '(' and the letters and digits join with a space
joinValue_alnum(prev, add) ==
    IF prev = "" THEN add
    ELSE IF Char(add, 1) \in (WordChars \ {"_"}) \cup {"("} THEN prev \o " " \o add
    ELSE prev \o "\n" \o add

\* joinValue(prev, add), prev undefined when the key has no value yet
joinValue(prev, add) ==
    IF prev = "" THEN add
    ELSE IF Char(add, 1) \in WordChars \cup {"-", "(", ")", "\\", "/", "."} THEN prev \o " " \o add
    ELSE prev \o "\n" \o add

\* one iteration of the loop of coalesceKVRows; lastKey is "" while undefined
coalesceStep(acc, r) ==
    LET key == trim(r[1])
        val == IF Len(r) >= 2 THEN trim(r[2]) ELSE ""
        add == IF Len(r) = 1 THEN r[1] ELSE val
    IN  IF Len(r) = 1 \/ key = ""
        THEN IF acc.lastKey # ""
             THEN [acc EXCEPT !.out = propSet(@, acc.lastKey,
                                          joinValue(propOr(@, acc.lastKey, ""), add))]
             ELSE acc
        ELSE [lastKey |-> key, out |-> propSet(acc.out, key, val)]

RECURSIVE coalesceFold(_, _)
coalesceFold(rows, acc) ==
    IF rows = <<>> THEN acc
    ELSE coalesceFold(Tail(rows), coalesceStep(acc, Head(rows)))

\* coalesceKVRows(rows)
coalesceKVRows(rows) == coalesceFold(rows, [lastKey |-> "", out |-> <<>>]).out

\* hdr[0].match(/Setting\s*-\s*(.+)/i)?.[1]?.trim()
scopeOf(cell) ==
    LET low  == toLowerCase(cell)
        dash(i) == runEnd(cell, i + 7, Whitespace, TRUE) + 1
        hits == {i \in 1..Len(cell) :
                    /\ StartsAt(low, "setting", i)
                    /\ Char(cell, dash(i)) = "-"
                    /\ groupAfterSpace(cell, dash(i) + 1, 0) # 0}
    IN  IF hits = {} THEN undefined
        ELSE LET g == groupAfterSpace(cell, dash(Min(hits)) + 1, 0)
             IN  Some(trim(SubSeq(cell, g, runEnd(cell, g, LineTerminators, FALSE))))

\* the first loop of parseSettingBlock: the lines of the block from index i
\* (1-based) up to the next [GPO] line, the next fence, or a blank line after
\* a table row
RECURSIVE collectTable(_, _, _, _)
collectTable(lines, i, table, rawLines) ==
    IF i > Len(lines) THEN [i |-> i, table |-> table, rawLines |-> rawLines]
    ELSE LET l == lines[i]
         IN  IF \/ includes(l, "[GPO]")
                \/ isBlockFence(l)
                \/ (trim(l) = "" /\ Len(table) > 0)
             THEN [i |-> i, table |-> table, rawLines |-> rawLines]
             ELSE collectTable(lines, i + 1,
                               IF isTableRow(l) THEN Append(table, l) ELSE table,
                               Append(rawLines, l))

\* the index after the run of table rows that starts at k and ends before end
RECURSIVE tableEnd(_, _, _)
tableEnd(lines, k, end) ==
    IF k < end /\ isTableRow(lines[k]) THEN tableEnd(lines, k + 1, end) ELSE k

\* variant of findingOf: the type is that of the header row alone
findingOf_headerOnly(localRows) ==
    LET headerRow  == localRows[1]
        headerType == IF Len(headerRow) > 1 THEN headerRow[2] ELSE ""
        kv         == coalesceKVRows(Tail(localRows))
    IN  [type   |-> IF headerType # "" THEN Some(headerType) ELSE undefined,
         reason |-> IF propOr(kv, "Reason", "") # ""
                    THEN Some(propOr(kv, "Reason", ""))
                    ELSE IF propIndex(kv, "reason") # 0
                    THEN Some(kv[propIndex(kv, "reason")].value)
                    ELSE undefined,
         fields |-> SelectSeq(kv, LAMBDA p : p.key \notin {"type", "reason"})]

\* the Finding of a nested table whose header row starts with "Finding":
\* { ...kv } with type and reason written over it
findingOf(localRows) ==
    LET headerRow  == localRows[1]
        headerType == IF Len(headerRow) > 1 THEN headerRow[2] ELSE ""
        kv         == coalesceKVRows(Tail(localRows))
    IN  [type   |-> IF headerType # "" THEN Some(headerType)
                    ELSE IF propOr(kv, "Finding", "") # ""
                    THEN Some(propOr(kv, "Finding", ""))
                    ELSE IF propIndex(kv, "Type") # 0
                    THEN Some(kv[propIndex(kv, "Type")].value)
                    ELSE undefined,
         reason |-> IF propOr(kv, "Reason", "") # ""
                    THEN Some(propOr(kv, "Reason", ""))
                    ELSE IF propIndex(kv, "reason") # 0
                    THEN Some(kv[propIndex(kv, "reason")].value)
                    ELSE undefined,
         fields |-> SelectSeq(kv, LAMBDA p : p.key \notin {"type", "reason"})]

\* variant of collectFindings: a nested table that is no Finding is consumed
\* by the block, without a finding
RECURSIVE collectFindings_consume(_, _, _, _)
collectFindings_consume(lines, i, findings, rawLines) ==
    IF i <= Len(lines) /\ isBlockFence(lines[i])
    THEN LET j == i + 1
             k == tableEnd(lines, j, Len(lines) + 1)
             localRows == parseTableRows(SubSeq(lines, j, k - 1))
         IN  IF localRows # <<>>
                /\ includes(toLowerCase(localRows[1][1]), "finding")
             THEN collectFindings_consume(lines, k,
                                  Append(findings, findingOf(localRows)),
                                  rawLines \o <<lines[i]>> \o SubSeq(lines, j, k - 1))
             ELSE [i |-> k, findings |-> findings,
                   rawLines |-> rawLines \o <<lines[i]>> \o SubSeq(lines, j, k - 1)]
    ELSE [i |-> i, findings |-> findings, rawLines |-> rawLines]

\* variant of collectFindings: after a Finding table the index goes back to
\* the first row of the table
RECURSIVE collectFindings_rewind(_, _, _, _)
collectFindings_rewind(lines, i, findings, rawLines) ==
    IF i <= Len(lines) /\ isBlockFence(lines[i])
    THEN LET j == i + 1
             k == tableEnd(lines, j, Len(lines) + 1)
             localRows == parseTableRows(SubSeq(lines, j, k - 1))
         IN  IF localRows # <<>>
                /\ includes(toLowerCase(localRows[1][1]), "finding")
             THEN collectFindings_rewind(lines, j,
                                  Append(findings, findingOf(localRows)),
                                  rawLines \o <<lines[i]>> \o SubSeq(lines, j, k - 1))
             ELSE [i |-> i, findings |-> findings, rawLines |-> rawLines]
    ELSE [i |-> i, findings |-> findings, rawLines |-> rawLines]

\* the second loop of parseSettingBlock: the nested Finding tables that
\* follow the block, each behind a fence
RECURSIVE collectFindings(_, _, _, _)
collectFindings(lines, i, findings, rawLines) ==
    IF i <= Len(lines) /\ isBlockFence(lines[i])
    THEN LET j == i + 1
             k == tableEnd(lines, j, Len(lines) + 1)
             localRows == parseTableRows(SubSeq(lines, j, k - 1))
         IN  IF localRows # <<>>
                /\ includes(toLowerCase(localRows[1][1]), "finding")
             THEN collectFindings(lines, k,
                                  Append(findings, findingOf(localRows)),
                                  rawLines \o <<lines[i]>> \o SubSeq(lines, j, k - 1))
             ELSE [i |-> i, findings |-> findings, rawLines |-> rawLines]
    ELSE [i |-> i, findings |-> findings, rawLines |-> rawLines]

\* parseSettingBlock(startIdx): the block and the next index, both 1-based
parseSettingBlock(lines, startIdx) ==
    LET fenced   == isBlockFence(lines[startIdx])
        body     == collectTable(lines,
                                 IF fenced THEN startIdx + 1 ELSE startIdx,
                                 <<>>,
                                 IF fenced THEN <<lines[startIdx]>> ELSE <<>>)
        rows     == parseTableRows(body.table)
        hasHdr   == /\ Len(rows) > 0
                    /\ Len(rows[1]) >= 2
                    /\ includes(toLowerCase(rows[1][1]), "setting")
        nested   == collectFindings(lines, body.i, <<>>, body.rawLines)
    IN  [block |-> [scope    |-> IF hasHdr THEN scopeOf(rows[1][1]) ELSE undefined,
                    category |-> IF hasHdr THEN Some(rows[1][2]) ELSE undefined,
                    entries  |-> coalesceKVRows(IF hasHdr THEN Tail(rows) ELSE rows),
                    findings |-> nested.findings,
                    rawLines |-> nested.rawLines],
         next  |-> nested.i]

\* the property of the header that a row with first cell `cell` writes
headerKey(cell) ==
    LET key == toLowerCase(cell)
    IN  IF StartsAt(key, "gpo", 1) THEN "gpo"
        ELSE IF StartsAt(key, "date created", 1) THEN "dateCreated"
        ELSE IF StartsAt(key, "date modified", 1) THEN "dateModified"
        ELSE IF StartsAt(key, "path in sysvol", 1) THEN "pathInSysvol"
        ELSE IF StartsAt(key, "computer policy", 1) THEN "computerPolicy"
        ELSE IF StartsAt(key, "user policy", 1) THEN "userPolicy"
        ELSE cell

\* the loop over headerRows that fills the header
RECURSIVE headerOf(_, _)
headerOf(headerRows, header) ==
    IF headerRows = <<>> THEN header
    ELSE LET r == Head(headerRows)
         IN  headerOf(Tail(headerRows),
                      IF Len(r) < 2 THEN header
                      ELSE propSet(header, headerKey(r[1]), r[2]))

\* the loop over the lines of a section after its header: a setting block
\* at every fence line; end is the index after the section
RECURSIVE settingsOf(_, _, _, _)
settingsOf(lines, i, end, settings) ==
    IF i >= end THEN settings
    ELSE IF isBlockFence(lines[i])
    THEN settingsOf(lines, parseSettingBlock(lines, i).next, end,
                    Append(settings, parseSettingBlock(lines, i).block))
    ELSE settingsOf(lines, i + 1, end, settings)

\* the same loop, for the indices it hands to parseSettingBlock and gets back:
\* the start index and the next index of every block of the section
RECURSIVE blockRanges(_, _, _, _)
blockRanges(lines, i, end, ranges) ==
    IF i >= end THEN ranges
    ELSE IF isBlockFence(lines[i])
    THEN blockRanges(lines, parseSettingBlock(lines, i).next, end,
                     Append(ranges, [start |-> i,
                                     next  |-> parseSettingBlock(lines, i).next]))
    ELSE blockRanges(lines, i + 1, end, ranges)

\* one iteration of the section loop: the Gpo of the section that starts at
\* line start and ends before line end
gpoOf(lines, start, end) ==
    LET i == tableEnd(lines, start + 1, end)
    IN  [startedAtRaw |-> lines[start],
         header       |-> headerOf(parseTableRows(SubSeq(lines, start + 1, i - 1)), <<>>),
         settings     |-> settingsOf(lines, i, end, <<>>)]

parseGPO(raw) ==
    LET lines  == splitLines(raw)
        \* the indices of the lines that hold the [GPO] marker, ascending
        gpoIdx == SelectSeq([i \in 1..Len(lines) |-> i],
                            LAMBDA i : includes(lines[i], "[GPO]"))
        pre    == collectInfo(raw, lines, [info |-> <<>>, finishedAt |-> undefined,
                                           duration |-> undefined])
    IN  [info       |-> pre.info,
         gpos       |-> [gi \in 1..Len(gpoIdx) |->
                            gpoOf(lines, gpoIdx[gi],
                                  IF gi + 1 <= Len(gpoIdx) THEN gpoIdx[gi + 1]
                                  ELSE Len(lines) + 1)],
         finishedAt |-> pre.finishedAt,
         duration   |-> pre.duration,
         raw        |-> raw]

-----------------------------------------------------------------------------
(* State of the App component: src/unnamed/part_001 *)

\* the JavaScript value null
null == [isNull |-> TRUE]

\* useState({ total: 0, red: 0, yellow: 0, green: 0, black: 0 })
NoFindingsStats == [total |-> 0, red |-> 0, yellow |-> 0, green |-> 0, black |-> 0]

\* the state of the component after construction, before any file is given
AppInitial ==
    /\ file = null
    /\ called = <<>>
    /\ allResults = <<>>
    /\ shareResults = <<>>
    /\ GPOReport = null
    /\ stats = NoFindingsStats
    /\ duplicateStatsState = null
    /\ loadedFileName = ""
    /\ loadedFileSize = ""
    /\ currentView = "dashboard"
    /\ errorInfo = null

-----------------------------------------------------------------------------
(* JSON.parse, as processFile applies it to the text of a .json file *)

\* the position after the white space of the JSON grammar that starts at i
RECURSIVE skipWhitespace(_, _)
skipWhitespace(s, i) ==
    IF Char(s, i) \in {" ", "\t", "\n", "\r"} THEN skipWhitespace(s, i + 1) ELSE i

\* the number that a run of decimal digits denotes
RECURSIVE digitsValue(_, _)
digitsValue(s, acc) ==
    LET digitValue(c) ==
            CASE c = "0" -> 0 [] c = "1" -> 1 [] c = "2" -> 2 [] c = "3" -> 3
              [] c = "4" -> 4 [] c = "5" -> 5 [] c = "6" -> 6 [] c = "7" -> 7
              [] c = "8" -> 8 [] c = "9" -> 9
    IN  IF s = "" THEN acc
        ELSE digitsValue(From(s, 2), 10 * acc + digitValue(Char(s, 1)))

\* parseInt(s, 10) of a string that starts with a digit
parseInt(s) == digitsValue(SubSeq(s, 1, digitsEnd(s, 1)), 0)

\* the decoder stops at position i: a SyntaxError
SyntaxErrorAt(i) == [ok |-> FALSE, position |-> i]

\* The decoder has read value v and stands at position next. A value of the
\* model does not tell what it is, so the decoder keeps beside it its kind
\* (typeof v, but "array" for an Array and "null" for null), String(v) and,
\* for an Array, String(v[0]).
Decoded(v, next, kind, string, first) ==
    [ok |-> TRUE, value |-> v, next |-> next, kind |-> kind,
     string |-> string, first |-> first]

\* the characters of a string literal from position i, after the opening
\* quote; the escapes \b and \uXXXX denote characters that the texts of the
\* model are not written with
RECURSIVE JSONstring(_, _, _)
JSONstring(s, i, acc) ==
    LET c == Char(s, i)
        JSONEscapes ==
            ("\"" :> "\"") @@ ("\\" :> "\\") @@ ("/" :> "/") @@ ("n" :> "\n")
                @@ ("t" :> "\t") @@ ("r" :> "\r") @@ ("f" :> "\f")
    IN  IF c = "" THEN SyntaxErrorAt(i)
        ELSE IF c = "\"" THEN Decoded(acc, i + 1, "string", acc, "")
        ELSE IF c = "\\"
             THEN IF Char(s, i + 1) \in DOMAIN JSONEscapes
                  THEN JSONstring(s, i + 2, acc \o JSONEscapes[Char(s, i + 1)])
                  ELSE SyntaxErrorAt(i + 1)
        ELSE IF c \in {"\n", "\t", "\r", "\f"} THEN SyntaxErrorAt(i)
        ELSE JSONstring(s, i + 1, acc \o c)

\* an integer literal at position i; the numbers of the texts are integers
JSONnumber(s, i) ==
    LET d == IF Char(s, i) = "-" THEN i + 1 ELSE i
    IN  IF Char(s, d) \notin Digits THEN SyntaxErrorAt(d)
        ELSE IF Char(s, d) = "0"
             THEN IF Char(s, d + 1) \in Digits THEN SyntaxErrorAt(d + 1)
                  ELSE Decoded(0, d + 1, "number", "0", "")
        ELSE LET e == digitsEnd(s, d)
                 n == digitsValue(SubSeq(s, d, e), 0)
             IN  Decoded(IF d = i THEN n ELSE 0 - n, e + 1, "number",
                         SubSeq(s, i, e), "")

\* one of the literals true, false, null at position i
JSONliteral(s, i, word, v) ==
    IF StartsAt(s, word, i)
    THEN Decoded(v, i + Len(word),
                 IF word = "null" THEN "null" ELSE "boolean", word, "")
    ELSE SyntaxErrorAt(Min({k \in i..(i + Len(word)) :
                               Char(s, k) # Char(word, k - i + 1)}))

\* A JSON array is the sequence of its elements and a JSON object the
\* function from its keys to their values (a later duplicate key wins); the
\* empty array and the empty object are both <<>>.
RECURSIVE JSONvalue(_, _)
RECURSIVE JSONmembers(_, _, _)
RECURSIVE JSONelements(_, _, _, _, _)

JSONvalue(s, i0) ==
    LET i == skipWhitespace(s, i0)
        c == Char(s, i)
    IN  CASE c = "{" ->
                LET j == skipWhitespace(s, i + 1)
                IN  IF Char(s, j) = "}"
                    THEN Decoded(<<>>, j + 1, "object", "[object Object]", "")
                    ELSE JSONmembers(s, j, <<>>)
          [] c = "[" ->
                LET j == skipWhitespace(s, i + 1)
                IN  IF Char(s, j) = "]"
                    THEN Decoded(<<>>, j + 1, "array", "", "undefined")
                    ELSE JSONelements(s, j, <<>>, "", "")
          [] c = "\"" -> JSONstring(s, i + 1, "")
          [] c = "t" -> JSONliteral(s, i, "true", TRUE)
          [] c = "f" -> JSONliteral(s, i, "false", FALSE)
          [] c = "n" -> JSONliteral(s, i, "null", null)
          [] c = "-" \/ c \in Digits -> JSONnumber(s, i)
          [] OTHER -> SyntaxErrorAt(i)

\* the members of an object from position i, the first character of a key
JSONmembers(s, i, object) ==
    IF Char(s, i) # "\"" THEN SyntaxErrorAt(i)
    ELSE LET key == JSONstring(s, i + 1, "")
         IN  IF ~key.ok THEN key
             ELSE LET colon == skipWhitespace(s, key.next)
                  IN  IF Char(s, colon) # ":" THEN SyntaxErrorAt(colon)
                      ELSE LET member == JSONvalue(s, colon + 1)
                           IN  IF ~member.ok THEN member
                               ELSE LET j    == skipWhitespace(s, member.next)
                                        next == (key.value :> member.value) @@ object
                                    IN  IF Char(s, j) = "}"
                                        THEN Decoded(next, j + 1, "object", "[object Object]", "")
                                        ELSE IF Char(s, j) = ","
                                        THEN JSONmembers(s, skipWhitespace(s, j + 1), next)
                                        ELSE SyntaxErrorAt(j)

\* the elements of an array from position i, the first character of a value;
\* joined is String(array): the elements joined by ",", null as ""
JSONelements(s, i, array, joined, first) ==
    LET element == JSONvalue(s, i)
    IN  IF ~element.ok THEN element
        ELSE LET j    == skipWhitespace(s, element.next)
                 next == Append(array, element.value)
                 text == IF element.kind = "null" THEN "" ELSE element.string
                 join == IF array = <<>> THEN text ELSE joined \o "," \o text
                 head == IF array = <<>> THEN element.string ELSE first
             IN  IF Char(s, j) = "]" THEN Decoded(next, j + 1, "array", join, head)
                 ELSE IF Char(s, j) = ","
                 THEN JSONelements(s, j + 1, next, join, head)
                 ELSE SyntaxErrorAt(j)

\* JSON.parse(text): the value, or the position at which decoding fails
JSONparse(text) ==
    LET r == JSONvalue(text, 1)
    IN  IF ~r.ok THEN r
        ELSE IF skipWhitespace(text, r.next) > Len(text) THEN r
        ELSE SyntaxErrorAt(skipWhitespace(text, r.next))

-----------------------------------------------------------------------------
(* Upload handlers of the App component: src/unnamed/part_001 *)

\* s.endsWith(suffix)
endsWith(s, suffix) ==
    Len(s) >= Len(suffix) /\ SubSeq(s, Len(s) - Len(suffix) + 1, Len(s)) = suffix

\* processFile: the category declared for a file, from its name
fileTypeOf(name) ==
    IF endsWith(name, ".json") THEN "json"
    ELSE IF endsWith(name, ".log") THEN "log"
    ELSE "text"

\* formatFileSize(bytes): the size in its unit, rounded to one decimal that
\* parseFloat drops when it is 0
formatFileSize(bytes) ==
    IF bytes = 0 THEN "0 B"
    ELSE LET sizes  == <<"B", "KB", "MB", "GB">>
             \* Math.floor(Math.log(bytes) / Math.log(1024)), below 1024^4
             i      == Max({k \in 0..3 : 1024 ^ k <= bytes})
             unit   == 1024 ^ i
             tenths == (20 * bytes + unit) \div (2 * unit)
         IN  ToString(tenths \div 10)
                 \o (IF tenths % 10 = 0 THEN "" ELSE "." \o ToString(tenths % 10))
                 \o " " \o sizes[i + 1]

\* /^\s*\|.*\|/m.test(text): a '|' that only white space separates from the
\* start of a line, and a later '|' with no line terminator in between
hasTableRow(text) ==
    \E i \in 1..Len(text) :
        /\ Char(text, i) = "|"
        /\ \E b \in 1..i :
              /\ b = 1 \/ Char(text, b - 1) \in LineTerminators
              /\ \A k \in b..(i - 1) : Char(text, k) \in Whitespace
        /\ \E j \in (i + 1)..Len(text) :
              /\ Char(text, j) = "|"
              /\ NoTerminator(SubSeq(text, i + 1, j - 1))

\* variant of looksLikeGPO: the fence token counts only at the start of a line
looksLikeGPO_fenceLine(text) ==
    /\ includes(text, "[GPO]")
    /\ \/ hasTableRow(text)
       \/ \E i \in 1..Len(text) :
             /\ StartsAt(text, "\\___", i)
             /\ i = 1 \/ Char(text, i - 1) \in LineTerminators

\* looksLikeGPO(text) of handleFileUpload
looksLikeGPO(text) ==
    /\ includes(text, "[GPO]")
    /\ hasTableRow(text) \/ includes(text, "\\___")

\* the array [text] that processFile hands over for a text or log file
textUpload(text) == Decoded(<<text>>, Len(text) + 1, "array", text, text)

\* Array.isArray(data) ? String(data[0]) : String(data)
rawTextOf(upload) == IF upload.kind = "array" THEN upload.first ELSE upload.string

\* variant of isPolicyReport: the text is inspected whatever the category
isPolicyReport_anyCategory(type, upload) == looksLikeGPO(rawTextOf(upload))

\* handleFileUpload: the upload is handed to parseGPO
isPolicyReport(type, upload) == type # "json" /\ looksLikeGPO(rawTextOf(upload))

\* parseSnafflerData: the extractor that the category selects
parserOf(type) == IF type = "json" THEN "parseSnafflerJson" ELSE "parseSnafflerText"

\* parseSnafflerJson on a decoded value that holds no entries: the loop over
\* jsonData.entries throws a TypeError. A document that holds entries holds
\* a sequence of objects with a level and a message.
parseSnafflerJsonThrows(upload) ==
    upload.kind # "object" \/ "entries" \notin DOMAIN upload.value

\* the message of that TypeError, which the engine words
TypeErrorMessages(upload) ==
    IF upload.kind = "null"
    THEN {"Cannot read properties of null (reading 'entries')",
          "jsonData is null",
          "null is not an object (evaluating 'jsonData.entries')"}
    ELSE {"jsonData.entries is not iterable",
          "undefined is not a function (near '...entry of jsonData.entries...')"}

\* the message of the SyntaxError of JSON.parse when decoding stops at the
\* 1-based position i, which the engine words: with the 0-based position,
\* with the line and column, with the source, or with none of them
SyntaxErrorMessages(text, i) ==
    LET P  == ToString(i - 1)
        lineOf   == 1 + Cardinality({k \in 1..(i - 1) : Char(text, k) = "\n"})
        columnOf == i - Max({0} \cup {k \in 1..(i - 1) : Char(text, k) = "\n"})
        LC == "line " \o ToString(lineOf) \o " column " \o ToString(columnOf)
        X  == Char(text, i)
    IN  IF i > Len(text)
        THEN {"Unexpected end of JSON input",
              "JSON.parse: unexpected end of data at " \o LC \o " of the JSON data",
              "JSON Parse error: Unexpected EOF"}
        ELSE {"Unexpected token " \o X \o " in JSON at position " \o P,
              "Unexpected token '" \o X \o "', \"" \o substring(text, 0, 20)
                  \o "\" is not valid JSON",
              "Unexpected token '" \o X \o "' in JSON at position " \o P
                  \o " (" \o LC \o ")",
              "JSON.parse: unexpected character at " \o LC \o " of the JSON data",
              "JSON Parse error: Unrecognized token '" \o X \o "'"}

\* message.match(/word(\d+)/): the number after the leftmost word that a
\* digit follows
numberAfter(message, word) ==
    LET starts == {i \in 1..Len(message) :
                      /\ StartsAt(message, word, i)
                      /\ Char(message, i + Len(word)) \in Digits}
    IN  IF starts = {} THEN [found |-> FALSE]
        ELSE [found |-> TRUE,
              value |-> parseInt(From(message, Min(starts) + Len(word)))]

\* message.match(/line (\d+) column (\d+)/)
lineColumnMatchOf(message) ==
    LET starts == {i \in 1..Len(message) :
                      /\ StartsAt(message, "line ", i)
                      /\ Char(message, i + 5) \in Digits
                      /\ StartsAt(message, " column ", digitsEnd(message, i + 5) + 1)
                      /\ Char(message, digitsEnd(message, i + 5) + 9) \in Digits}
    IN  IF starts = {} THEN [found |-> FALSE]
        ELSE LET i == Min(starts)
             IN  [found  |-> TRUE,
                  line   |-> parseInt(From(message, i + 5)),
                  column |-> parseInt(From(message, digitsEnd(message, i + 5) + 9))]

\* the sum of lines[i].length + 1 over the first n lines
RECURSIVE lengthsUpTo(_, _)
lengthsUpTo(lines, n) ==
    IF n <= 0 THEN 0 ELSE lengthsUpTo(lines, n - 1) + Len(lines[n]) + 1

\* the payload of the .catch of processFile
ReadError(fileName, type) ==
    [message  |-> "Error reading file. Please check if the file is corrupted or unreadable.",
     fileName |-> fileName,
     fileType |-> type]

\* variant of errorInfoOf: the words "expected" and "end of" do not count as
\* a mention of the end of the input
errorInfoOf_fiveWords(message, text, fileName, type) ==
    LET lineColumnMatch == lineColumnMatchOf(message)
        positionMatch   == numberAfter(message, "position ")
        columnMatch     == numberAfter(message, "column ")
        lines      == split(text, "\n")
        lineNum    == lineColumnMatch.line
        targetLine == Min({lineNum - 1, Len(lines) - 1})
        matched    == type = "json" /\ (lineColumnMatch.found \/ positionMatch.found
                                            \/ columnMatch.found)
        absolutePosition ==
            IF lineColumnMatch.found
            THEN lengthsUpTo(lines, targetLine) + lineColumnMatch.column - 1
            ELSE IF positionMatch.found THEN positionMatch.value
            ELSE columnMatch.value
        startLine  == Max({0, lineNum - 3})
        endLine    == Min({Len(lines), lineNum + 2})
        start      == IF lineColumnMatch.found THEN lengthsUpTo(lines, startLine)
                      ELSE Max({0, absolutePosition - 150})
        end        == IF lineColumnMatch.found
                      THEN Min({Len(text),
                                start + (IF endLine > startLine
                                         THEN lengthsUpTo(lines, endLine)
                                                  - lengthsUpTo(lines, startLine)
                                         ELSE 0)})
                      ELSE Min({Len(text), absolutePosition + 150})
        tailStart  == Max({0, Len(text) - 300})
        atEnd      == \E w \in {"unexpected end", "unterminated", "eof",
                                "missing", "incomplete"} :
                          includes(toLowerCase(message), w)
        payload(snippet, errorPosition, actualErrorLine, snippetStartLine) ==
            [message          |-> IF message = ""
                                  THEN "An unknown error occurred while processing the file."
                                  ELSE message,
             snippet          |-> snippet,
             errorPosition    |-> errorPosition,
             fileName         |-> fileName,
             fileType         |-> type,
             actualLineNumber |-> actualErrorLine,
             snippetStartLine |-> snippetStartLine]
    IN  IF matched /\ lineColumnMatch.found /\ startLine > Len(lines)
        THEN ReadError(fileName, type)
        ELSE IF matched
        THEN payload((IF start > 0 THEN "..." ELSE "")
                         \o substring(text, start, end)
                         \o (IF end < Len(text) THEN "..." ELSE ""),
                     Some(absolutePosition - start + (IF start > 0 THEN 3 ELSE 0)),
                     IF lineColumnMatch.found THEN Some(lineNum) ELSE undefined,
                     IF lineColumnMatch.found THEN Some(startLine + 1) ELSE undefined)
        ELSE IF type = "json" /\ atEnd
        THEN payload((IF tailStart > 0 THEN "..." ELSE "")
                         \o substring(text, tailStart, Len(text)),
                     Some(tailStart), undefined, undefined)
        ELSE payload(substring(text, 0, 300)
                         \o (IF Len(text) > 300 THEN "..." ELSE ""),
                     undefined, undefined, undefined)

\* The catch of processFile: the payload of setErrorInfo for an error with
\* the given message. A reported line more than three past the last line
\* makes the walk to the start of the window read a line that does not
\* exist; that TypeError reaches the .catch of the promise.
errorInfoOf(message, text, fileName, type) ==
    LET lineColumnMatch == lineColumnMatchOf(message)
        positionMatch   == numberAfter(message, "position ")
        columnMatch     == numberAfter(message, "column ")
        lines      == split(text, "\n")
        lineNum    == lineColumnMatch.line
        targetLine == Min({lineNum - 1, Len(lines) - 1})
        matched    == type = "json" /\ (lineColumnMatch.found \/ positionMatch.found
                                            \/ columnMatch.found)
        absolutePosition ==
            IF lineColumnMatch.found
            THEN lengthsUpTo(lines, targetLine) + lineColumnMatch.column - 1
            ELSE IF positionMatch.found THEN positionMatch.value
            ELSE columnMatch.value
        startLine  == Max({0, lineNum - 3})
        endLine    == Min({Len(lines), lineNum + 2})
        start      == IF lineColumnMatch.found THEN lengthsUpTo(lines, startLine)
                      ELSE Max({0, absolutePosition - 150})
        end        == IF lineColumnMatch.found
                      THEN Min({Len(text),
                                start + (IF endLine > startLine
                                         THEN lengthsUpTo(lines, endLine)
                                                  - lengthsUpTo(lines, startLine)
                                         ELSE 0)})
                      ELSE Min({Len(text), absolutePosition + 150})
        tailStart  == Max({0, Len(text) - 300})
        atEnd      == \E w \in {"unexpected end", "unterminated", "expected", "eof",
                                "end of", "missing", "incomplete"} :
                          includes(toLowerCase(message), w)
        payload(snippet, errorPosition, actualErrorLine, snippetStartLine) ==
            [message          |-> IF message = ""
                                  THEN "An unknown error occurred while processing the file."
                                  ELSE message,
             snippet          |-> snippet,
             errorPosition    |-> errorPosition,
             fileName         |-> fileName,
             fileType         |-> type,
             actualLineNumber |-> actualErrorLine,
             snippetStartLine |-> snippetStartLine]
    IN  IF matched /\ lineColumnMatch.found /\ startLine > Len(lines)
        THEN ReadError(fileName, type)
        ELSE IF matched
        THEN payload((IF start > 0 THEN "..." ELSE "")
                         \o substring(text, start, end)
                         \o (IF end < Len(text) THEN "..." ELSE ""),
                     Some(absolutePosition - start + (IF start > 0 THEN 3 ELSE 0)),
                     IF lineColumnMatch.found THEN Some(lineNum) ELSE undefined,
                     IF lineColumnMatch.found THEN Some(startLine + 1) ELSE undefined)
        ELSE IF type = "json" /\ atEnd
        THEN payload((IF tailStart > 0 THEN "..." ELSE "")
                         \o substring(text, tailStart, Len(text)),
                     Some(tailStart), undefined, undefined)
        ELSE payload(substring(text, 0, 300)
                         \o (IF Len(text) > 300 THEN "..." ELSE ""),
                     undefined, undefined, undefined)

\* newStats of handleFileUpload
newStats(fileResults) ==
    LET ratingCount(rating) ==
            Cardinality({i \in 1..Len(fileResults) :
                            toLowerCase(fileResults[i].rating) = rating})
    IN
    [total  |-> Len(fileResults),
     red    |-> ratingCount("red"),
     yellow |-> ratingCount("yellow"),
     green  |-> ratingCount("green"),
     black  |-> ratingCount("black")]

\* report.gpos.reduce((total, gpo) => total + gpo.settings.length, 0)
RECURSIVE totalSettings(_)
totalSettings(gpos) ==
    IF gpos = <<>> THEN 0 ELSE Len(Head(gpos).settings) + totalSettings(Tail(gpos))

\* variant of Thrown: the error clears the findings and the shares
Thrown_clearing(messages) ==
    /\ outcome' \in messages
    /\ errorInfo' = errorInfoOf(outcome', file.text, file.name, fileType')
    /\ allResults' = <<>>
    /\ shareResults' = <<>>
    /\ UNCHANGED <<GPOReport, stats, duplicateStatsState,
                   loadedFileName, loadedFileSize, currentView>>

\* an error with one of the given messages is thrown under the try of
\* processFile, before handleFileUpload sets any state
Thrown(messages) ==
    /\ outcome' \in messages
    /\ errorInfo' = errorInfoOf(outcome', file.text, file.name, fileType')
    /\ UNCHANGED <<allResults, shareResults, GPOReport, stats, duplicateStatsState,
                   loadedFileName, loadedFileSize, currentView>>

\* variant of handleFileUpload: a scanner file leaves the policy report as
\* it is
handleFileUpload_keepReport(upload, type, fileName, fileSize, calls) ==
    /\ data' = IF type = "json" THEN upload.value ELSE upload.first
    /\ IF isPolicyReport(type, upload)
       THEN /\ called' = calls \o <<"parseGPO">>
            /\ GPOReport' = parseGPO(rawTextOf(upload))
            /\ loadedFileName' = fileName
            /\ loadedFileSize' = fileSize
            /\ allResults' = <<>>
            /\ shareResults' = <<>>
            /\ stats' = [NoFindingsStats EXCEPT !.total = totalSettings(GPOReport'.gpos)]
            /\ duplicateStatsState' = null
            /\ currentView' = "dashboard"
            /\ outcome' = "ok"
            /\ errorInfo' = null
            /\ UNCHANGED <<results, noDuplicates, finalResults, duplicateStats>>
       ELSE IF type = "json" /\ parseSnafflerJsonThrows(upload)
       THEN /\ called' = calls \o <<parserOf(type)>>
            /\ Thrown(TypeErrorMessages(upload))
            /\ UNCHANGED <<results, noDuplicates, finalResults, duplicateStats>>
       ELSE /\ results' = extractResults(data', type)
            /\ noDuplicates' = removeDuplicates(results')
            /\ finalResults' = removePriorityDuplicates(noDuplicates')
            /\ duplicateStats' = getDuplicateStats(Len(results'), Len(finalResults'))
            /\ IF parseSnafflerDataThrows(finalResults')
               THEN /\ called' = calls \o <<parserOf(type)>>
                    /\ Thrown({EmptyOrInvalidInput})
               ELSE /\ called' = calls \o <<parserOf(type), "parseShareData">>
                    /\ allResults' = finalResults'
                    /\ loadedFileName' = fileName
                    /\ loadedFileSize' = fileSize
                    /\ currentView' = "dashboard"
                    /\ UNCHANGED GPOReport
                    /\ duplicateStatsState' =
                           IF duplicateStats'.duplicatesRemoved > 0
                           THEN duplicateStats' ELSE null
                    /\ stats' = newStats(finalResults')
                    /\ shareResults' =
                           parseShareData(finalResults',
                                          IF type = "json"
                                          THEN parseSnafflerShares(data'.entries)
                                          ELSE parseSnafflerSharesText(data'))
                    /\ outcome' = "ok"
                    /\ errorInfo' = null

\* handleFileUpload(data, fileType, fileName, fileSize) under the try of
\* processFile; calls are the parsers called before it
handleFileUpload(upload, type, fileName, fileSize, calls) ==
    /\ data' = IF type = "json" THEN upload.value ELSE upload.first
    /\ IF isPolicyReport(type, upload)
       THEN /\ called' = calls \o <<"parseGPO">>
            /\ GPOReport' = parseGPO(rawTextOf(upload))
            /\ loadedFileName' = fileName
            /\ loadedFileSize' = fileSize
            /\ allResults' = <<>>
            /\ shareResults' = <<>>
            /\ stats' = [NoFindingsStats EXCEPT !.total = totalSettings(GPOReport'.gpos)]
            /\ duplicateStatsState' = null
            /\ currentView' = "dashboard"
            /\ outcome' = "ok"
            /\ errorInfo' = null
            /\ UNCHANGED <<results, noDuplicates, finalResults, duplicateStats>>
       ELSE IF type = "json" /\ parseSnafflerJsonThrows(upload)
       THEN /\ called' = calls \o <<parserOf(type)>>
            /\ Thrown(TypeErrorMessages(upload))
            /\ UNCHANGED <<results, noDuplicates, finalResults, duplicateStats>>
       ELSE /\ results' = extractResults(data', type)
            /\ noDuplicates' = removeDuplicates(results')
            /\ finalResults' = removePriorityDuplicates(noDuplicates')
            /\ duplicateStats' = getDuplicateStats(Len(results'), Len(finalResults'))
            /\ IF parseSnafflerDataThrows(finalResults')
               THEN /\ called' = calls \o <<parserOf(type)>>
                    /\ Thrown({EmptyOrInvalidInput})
               ELSE /\ called' = calls \o <<parserOf(type), "parseShareData">>
                    /\ allResults' = finalResults'
                    /\ loadedFileName' = fileName
                    /\ loadedFileSize' = fileSize
                    /\ currentView' = "dashboard"
                    /\ GPOReport' = null
                    /\ duplicateStatsState' =
                           IF duplicateStats'.duplicatesRemoved > 0
                           THEN duplicateStats' ELSE null
                    /\ stats' = newStats(finalResults')
                    /\ shareResults' =
                           parseShareData(finalResults',
                                          IF type = "json"
                                          THEN parseSnafflerShares(data'.entries)
                                          ELSE parseSnafflerSharesText(data'))
                    /\ outcome' = "ok"
                    /\ errorInfo' = null
-----------------------------------------------------------------------------
(* Inputs of the dedup pipeline *)

\* object paths; a Windows path never holds '|', an arbitrary string may
Paths == {"a", "a|Red"}

Ratings == {"Red", "Yellow", "Green", "Black"}

\* rule names; a JSON RuleName is an arbitrary string
RuleNames == {"x", "y", "Red|x", "x, y"}

\* a FileResult as parseJsonFileEntry builds it; the fields the merger never
\* reads are told apart by matchContext, distinct for every extracted record
MkResult(path, rating, rule, k) ==
    [rating         |-> rating,
     fullPath       |-> path,
     fileName       |-> path,
     creationTime   |-> "",
     lastModified   |-> "",
     size           |-> "0",
     matchContext   |-> "ctx" \o ToString(k),
     ruleName       |-> rule,
     matchedStrings |-> <<>>,
     triage         |-> rating]

-----------------------------------------------------------------------------
(* Specification of the dedup pipeline on extracted findings *)

InitDedup ==
    /\ pc = "extracted"
    /\ fileType = "json"
    /\ data = [entries |-> <<>>]
    /\ outcome = "none"
    /\ \E n \in 0..MaxResults : \E f \in [1..n -> Paths \X Ratings \X RuleNames] :
          results = [i \in 1..n |-> MkResult(f[i][1], f[i][2], f[i][3], i)]
    /\ noDuplicates = <<>>
    /\ finalResults = <<>>
    /\ duplicateStats = NoStats
    /\ rerunResults = <<>>
    /\ AppInitial

\* the tail of parseSnafflerJson / parseSnafflerText: both passes and stats
Dedup ==
    /\ pc = "extracted"
    /\ noDuplicates' = removeDuplicates(results)
    /\ finalResults' = removePriorityDuplicates(noDuplicates')
    /\ duplicateStats' = getDuplicateStats(Len(results), Len(finalResults'))
    /\ pc' = "deduped"
    /\ UNCHANGED <<fileType, data, outcome, results, rerunResults, appVars>>

\* the pipeline applied to its own output
Rerun ==
    /\ pc = "deduped"
    /\ rerunResults' = removePriorityDuplicates(removeDuplicates(finalResults))
    /\ pc' = "rerun"
    /\ UNCHANGED <<fileType, data, outcome, results, noDuplicates,
                   finalResults, duplicateStats, appVars>>

NextDedup == Dedup \/ Rerun

SpecDedup == InitDedup /\ [][NextDedup]_vars

-----------------------------------------------------------------------------
(* Inputs of the scanner pipeline *)

\* most lines of a text/log input
MaxLines == 3

\* most entries of a JSON input
MaxEntries == 3

ScenarioAPath == "\\\\host\\share\\secret.txt"

\* the line of Scenario A, as the specification writes it
ScenarioALine ==
    "[DOMAIN\\user][File] {Red}... >(" \o ScenarioAPath
        \o ") password=hunter2 <KeepConfigRegexRed|50B>"

\* the same line with nothing between the severity and the path
ScenarioALineBare ==
    "[DOMAIN\\user][File] {Red}>(" \o ScenarioAPath
        \o ") password=hunter2 <KeepConfigRegexRed|50B>"

\* a line in the order in which the scanner writes its tokens
ScannerLine ==
    "[h\\u] [File] {Yellow}<KeepB|R|1.5kB|2024-01-02 03:04:05Z>("
        \o ScenarioAPath \o ") pass\\nword"

\* [File] lines that lack the severity token, or the path token
NoSeverityLine == "[File] <KeepC|1B>(\\\\host\\share\\c.txt) ctx"

NoPathLine == "[File] {Green}<KeepD|1B> ctx"

ShareLine == "[Share] {Green}<s|R|\\\\host\\share>(R) comment"

\* the last [File] line has rule details that hold no size token
TextLines == {ScenarioALine, ScenarioALineBare, ScannerLine, NoSeverityLine,
              NoPathLine, ShareLine, "",
              "[File] {Green}<KeepE|R>(\\\\host\\share\\e.txt) ctx"}

Texts == {joinLines(ls) : ls \in UNION {[1..n -> TextLines] : n \in 0..MaxLines}}

\* the FileResult payload of a JSON entry
JsonFile(name, rule, ctx) ==
    [FileInfo    |-> [FullName |-> "\\\\host\\share\\" \o name, Name |-> name,
                      Length |-> 12,
                      LastWriteTimeUtc |-> "2024-01-02T03:04:05Z"],
     TextResult  |-> [MatchContext |-> ctx, MatchedStrings |-> <<"pass">>],
     MatchedRule |-> [RuleName |-> rule, Triage |-> "Red"],
     RwStatus    |-> [CanRead |-> TRUE, CanWrite |-> FALSE, CanModify |-> FALSE]]

JsonEntries ==
    { \* an admissible entry
      [level |-> "Warn", message |-> "[File] a", eventProperties |->
          [Red |-> [FileResult |-> JsonFile("secret.txt", "KeepA", "pass\\nword")]]],
      \* the same object under two severities, without a size
      [level |-> "Warn", message |-> "[File] b", eventProperties |->
          [Yellow |-> [FileResult |-> JsonFile("secret.txt", "KeepB", "")],
           Green  |-> [FileResult |->
               [FileInfo    |-> [FullName |-> "\\\\host\\share\\g.txt"],
                TextResult  |-> [MatchContext |-> "x"],
                MatchedRule |-> [RuleName |-> "KeepG"]]]]],
      \* a payload without matched-rule
      [level |-> "Warn", message |-> "[File] c", eventProperties |->
          [Red |-> [FileResult |->
               [FileInfo   |-> [FullName |-> "\\\\host\\share\\c.txt"],
                TextResult |-> [MatchContext |-> "x"]]]]],
      \* a level other than Warn
      [level |-> "Info", message |-> "[File] d", eventProperties |->
          [Red |-> [FileResult |-> JsonFile("d.txt", "KeepD", "x")]]],
      \* an empty payload whose message is a scanner line
      [level |-> "Warn", message |-> ScannerLine, eventProperties |-> <<>>],
      \* an empty payload whose message is a [File] line without severity
      [level |-> "Warn", message |-> NoSeverityLine, eventProperties |-> <<>>],
      \* a share entry
      [level |-> "Warn", message |-> "[Share] e", eventProperties |->
          [Green |-> [ShareResult |-> [SharePath |-> "\\\\host\\share"]]]],
      \* an entry without eventProperties
      [level |-> "Warn", message |-> "[File] f"] }

JsonDocs ==
    {[entries |-> es] : es \in UNION {[1..n -> JsonEntries] : n \in 0..MaxEntries}}

-----------------------------------------------------------------------------
(* Specification of the scanner pipeline: parseSnafflerData on one input *)

InitScan ==
    /\ pc = "loaded"
    /\ \/ fileType = "json" /\ data \in JsonDocs
       \/ fileType \in {"text", "log"} /\ data \in Texts
    /\ outcome = "none"
    /\ results = <<>>
    /\ noDuplicates = <<>>
    /\ finalResults = <<>>
    /\ duplicateStats = NoStats
    /\ rerunResults = <<>>
    /\ AppInitial

\* parseSnafflerData(data, fileType): parseSnafflerJson or parseSnafflerText
\* (extraction, both dedup passes, statistics), then the throw on no result
ParseData ==
    /\ pc = "loaded"
    /\ results' = extractResults(data, fileType)
    /\ noDuplicates' = removeDuplicates(results')
    /\ finalResults' = removePriorityDuplicates(noDuplicates')
    /\ duplicateStats' = getDuplicateStats(Len(results'), Len(finalResults'))
    /\ outcome' = IF parseSnafflerDataThrows(finalResults')
                  THEN EmptyOrInvalidInput ELSE "ok"
    /\ pc' = "parsed"
    /\ UNCHANGED <<fileType, data, rerunResults, appVars>>

NextScan == ParseData

SpecScan == InitScan /\ [][NextScan]_vars

-----------------------------------------------------------------------------
(* Inputs of the upload handlers *)

\* most lines of the text of an uploaded file
MaxRouteLines == 2

\* the texts of at most MaxRouteLines lines: lines of a policy report, lines
\* that only resemble one, and scanner lines
RouteTexts ==
    LET RouteLines ==
            {"[GPO] g", "| a | b |", "|x", " \t| GPO | n |", "\\___ t", "t \\___",
             "x\r|y|", ScenarioALine, ShareLine, ""}
        \* scanner reports of a finding and two [Share] lines: of the same
        \* share, and of two shares
        OtherShare == "[Share] {Red}<o|R|\\\\host\\other>(W) second"
    IN  {joinLines(ls) :
            ls \in UNION {[1..n -> RouteLines] : n \in 0..MaxRouteLines}}
            \cup {joinLines(<<ScenarioALine, ShareLine, ShareLine>>),
                  joinLines(<<ShareLine, OtherShare, ScenarioALine>>)}

\* texts of .json files
JsonTexts ==
    LET \* the text of a JSON entry of level Warn
        JsonEntryText(message, payload) ==
            "{\"level\":\"Warn\",\"message\":\"" \o message
                \o "\",\"eventProperties\":{" \o payload \o "}}"
        \* a file-result payload under Red
        FilePayloadText ==
            "\"Red\":{\"FileResult\":{\"FileInfo\":{\"FullName\":\"\\\\\\\\host\\\\share\\\\a.txt\","
                \o "\"Name\":\"a.txt\",\"Length\":12},"
                \o "\"TextResult\":{\"MatchContext\":\"pass\\\\nword\",\"MatchedStrings\":[\"pass\"]},"
                \o "\"MatchedRule\":{\"RuleName\":\"KeepA\",\"Triage\":\"Red\"}}}"
        \* a share-result payload under Green
        SharePayloadText ==
            "\"Green\":{\"ShareResult\":{\"SharePath\":\"\\\\\\\\host\\\\share\",\"Listable\":true}}"
    IN
    { \* a document without entries
      "{\"entries\":[]}",
      \* a document with one finding whose message holds the marker, a fence
      \* token and a table row
      "{\"entries\":[" \o JsonEntryText("[File] [GPO] \\\\___ | a | b |", FilePayloadText)
          \o "]}",
      \* the same finding twice and a share, one entry on each line
      "{\"entries\":[\n" \o JsonEntryText("[File] a", FilePayloadText) \o ",\n"
          \o JsonEntryText("[Share] [GPO] \\\\___", SharePayloadText) \o ",\n"
          \o JsonEntryText("[File] a", FilePayloadText) \o "\n]}",
      \* values that are no document: a string and an array that hold a
      \* policy report, an object without entries, null
      "\"[GPO] \\\\___\"",
      "[\"[GPO] g\\n| a | b |\"]",
      "{\"[GPO]\":\"\\\\___\"}",
      "null",
      \* texts that JSON.parse rejects: at the end, and on the second line
      "{\"entries\":[",
      "{\n\"entries\": x [GPO] \\___}\n" }

\* the File objects handed to processFile; the texts are ASCII, so that
\* file.size is the length of the text
RouteFiles ==
    {[name |-> n, text |-> t] : n \in {"r.json", "r.log", "r.txt"},
                                t \in RouteTexts \cup JsonTexts}

-----------------------------------------------------------------------------
(* Specification of the upload handlers: processFile on one file *)

InitRoute ==
    /\ pc = "selected"
    /\ fileType = "none"
    /\ data = null
    /\ outcome = "none"
    /\ results = <<>>
    /\ noDuplicates = <<>>
    /\ finalResults = <<>>
    /\ duplicateStats = NoStats
    /\ rerunResults = <<>>
    /\ file \in RouteFiles
    /\ called = <<>>
    /\ allResults = <<>>
    /\ shareResults = <<>>
    /\ GPOReport = null
    /\ stats = NoFindingsStats
    /\ duplicateStatsState = null
    /\ loadedFileName = ""
    /\ loadedFileSize = ""
    /\ currentView = "dashboard"
    /\ errorInfo = null

\* processFile(file) with the callback of file.text(): the category from the
\* name, JSON.parse for a json file, handleFileUpload, and the catch
ProcessFile ==
    /\ pc = "selected"
    /\ pc' = "processed"
    /\ fileType' = fileTypeOf(file.name)
    /\ LET upload == IF fileType' = "json" THEN JSONparse(file.text)
                     ELSE textUpload(file.text)
           calls  == IF fileType' = "json" THEN <<"JSON.parse">> ELSE <<>>
       IN  IF ~upload.ok
           THEN /\ called' = calls
                /\ Thrown(SyntaxErrorMessages(file.text, upload.position))
                /\ UNCHANGED <<data, results, noDuplicates, finalResults,
                               duplicateStats>>
           ELSE handleFileUpload(upload, fileType', file.name,
                                 formatFileSize(Len(file.text)), calls)
    /\ UNCHANGED <<rerunResults, file>>

NextRoute == ProcessFile

SpecRoute == InitRoute /\ [][NextRoute]_vars

-----------------------------------------------------------------------------
(* Specification of the escape decoder: parseMatchContext on one text *)

\* most characters of a match context
MaxContextLen == 3

\* the texts of at most MaxContextLen characters out of the backslash, letters
\* that name an escape, an allow-listed metacharacter, a space and a plain
\* letter
MatchContexts ==
    LET ContextChars == {"\\", "n", "t", ".", " ", "a"}
        RECURSIVE ContextsOfLen(_)
        ContextsOfLen(n) ==
            IF n = 0 THEN {""}
            ELSE {c \o s : c \in ContextChars, s \in ContextsOfLen(n - 1)}
    IN  UNION {ContextsOfLen(n) : n \in 0..MaxContextLen}

InitDecode ==
    /\ pc = "context"
    /\ fileType = "none"
    /\ data \in MatchContexts
    /\ outcome = ""
    /\ results = <<>>
    /\ noDuplicates = <<>>
    /\ finalResults = <<>>
    /\ duplicateStats = NoStats
    /\ rerunResults = <<>>
    /\ AppInitial

\* parseMatchContext(matchContext)
Decode ==
    /\ pc = "context"
    /\ pc' = "decoded"
    /\ outcome' = parseMatchContext(data)
    /\ UNCHANGED <<fileType, data, results, noDuplicates, finalResults,
                   duplicateStats, rerunResults, appVars>>

SpecDecode == InitDecode /\ [][Decode]_vars

-----------------------------------------------------------------------------
(* Specification of the policy-report parser: parseGPO on one report *)

\* most key-value rows of the setting block of a report
MaxRows == 2

\* policy reports: a [GPO] line with what follows it, a fenced setting block
\* of at most MaxRows rows, and what follows the block
ReportTexts ==
    LET Header == <<"[GPO] A", "| GPO | a |">>
        Heads ==
            { \* a header table with two link rows of the same key
              <<"[GPO] A", "| GPO | a |", "| Link | l1 |", "| Link | l2 |">>,
              \* a [GPO] line followed by a line that is no table row
              <<"[GPO] A", "note">>,
              \* a [GPO] line followed by a table row without "GPO"
              <<"[GPO] A", "| Name | a |">> }
        Setting == <<"\\___", "| Setting - Computer Policy | Registry |">>
        \* rows of a key, of a repeated key, and continuation rows
        RowPool == {"| K | v |", "| K | w |", "| Member | m |",
                    "| | (x) |", "| | 2d |", "| | - b |", "| | * c |"}
        Rows == UNION {[1..n -> RowPool] : n \in 0..MaxRows}
        Tails ==
            { <<>>,
              \* a blank line and a row after it
              <<"", "| Z | z |">>,
              \* a nested Finding table with its type in the header row
              <<"\\___", "| Finding | Red |", "| Reason | r |">>,
              \* two nested Finding tables, the first without a type in
              \* its header row
              <<"\\___", "| Finding | |", "| Type | Green |", "| Reason | r |",
                "\\___", "| Finding | Yellow |">>,
              \* a nested table that is no Finding
              <<"\\___", "| Detail | d |", "| K | n |">>,
              \* a nested Finding table with a row that holds the marker
              <<"\\___", "| Finding | Red |", "| Reason | see [GPO] B |",
                "| GPO | b |">>,
              \* a second section: its [GPO] line followed by plain text
              <<"[GPO] B", "text", "\\___", "| S | t |">>,
              \* a second section with a header table
              <<"[GPO] B", "| GPO | b |">>,
              \* a fence right behind a fence
              <<"\\___", "\\___", "| S | t |">> }
    IN  {joinLines(Header \o Setting \o rows \o tail) :
            rows \in Rows, tail \in Tails}
        \cup {joinLines(head \o Setting \o <<"| K | v |">> \o tail) :
                 head \in Heads, tail \in Tails}

InitGPO ==
    /\ pc = "report"
    /\ fileType = "text"
    /\ data \in ReportTexts
    /\ outcome = "none"
    /\ results = <<>>
    /\ noDuplicates = <<>>
    /\ finalResults = <<>>
    /\ duplicateStats = NoStats
    /\ rerunResults = <<>>
    /\ AppInitial

\* parseGPO(raw), its report kept as handleFileUpload keeps it
ParseGPO ==
    /\ pc = "report"
    /\ pc' = "parsed"
    /\ GPOReport' = parseGPO(data)
    /\ UNCHANGED <<fileType, data, outcome, results, noDuplicates, finalResults,
                   duplicateStats, rerunResults, file, called, allResults,
                   shareResults, stats, duplicateStatsState, loadedFileName,
                   loadedFileSize, currentView, errorInfo>>

SpecGPO == InitGPO /\ [][ParseGPO]_vars

-----------------------------------------------------------------------------
(* Specification of the error report: the catch of processFile on one error *)

\* most lines of the text of a file
MaxTextLines == 7

\* the greatest line number that a message reports
MaxLineNum == 12

\* A file whose processing has thrown an error with a message: texts of 1 to
\* MaxTextLines short lines, one of them ended by a line terminator, a text
\* of more than 300 characters, and the messages that the engines word for
\* JSON.parse, with lines and positions inside and beyond the text
InitLocalize ==
    LET ShortLines == [k \in 1..MaxTextLines |-> "l" \o ToString(k)]
        Fifty      == "0123456789012345678901234567890123456789012345678"
        LongLines  == [k \in 1..7 |-> ToString(k) \o Fifty]
        FileTexts  == {joinLines(SubSeq(ShortLines, 1, n)) : n \in 1..MaxTextLines}
                          \cup {"l1\nl2\n", joinLines(LongLines)}
        Messages   ==
            {"Unexpected token at line " \o ToString(n) \o " column 2" :
                 n \in 1..MaxLineNum}
            \cup {"JSON.parse: unexpected character at line 2 column 1 of the JSON data",
                  "Unexpected token '}' in JSON at position 5 (line 1 column 6)",
                  "Unexpected token } in JSON at position 5",
                  "Unexpected token } in JSON at position 400",
                  "bad value in column 7",
                  "Unexpected end of JSON input",
                  "Unterminated string in JSON",
                  "JSON Parse error: Unexpected EOF",
                  "a brace is missing",
                  "incomplete document",
                  "Unexpected token 'l', \"l1\" is not valid JSON",
                  "reached the end of the data",
                  "JSON Parse error: Unrecognized token 'l'",
                  EmptyOrInvalidInput,
                  ""}
    IN  /\ pc = "failed"
        /\ fileType = "none"
        /\ data = null
        /\ outcome \in Messages
        /\ results = <<>>
        /\ noDuplicates = <<>>
        /\ finalResults = <<>>
        /\ duplicateStats = NoStats
        /\ rerunResults = <<>>
        /\ file \in {[name |-> n, text |-> t] : n \in {"r.json", "r.txt"},
                                                t \in FileTexts}
        /\ called = <<>>
        /\ allResults = <<>>
        /\ shareResults = <<>>
        /\ GPOReport = null
        /\ stats = NoFindingsStats
        /\ duplicateStatsState = null
        /\ loadedFileName = ""
        /\ loadedFileSize = ""
        /\ currentView = "dashboard"
        /\ errorInfo = null

\* the catch of processFile, and the .catch of the promise behind it, for
\* the error with the message outcome
Localize ==
    /\ pc = "failed"
    /\ pc' = "localized"
    /\ fileType' = fileTypeOf(file.name)
    /\ errorInfo' = errorInfoOf(outcome, file.text, file.name, fileType')
    /\ UNCHANGED <<data, outcome, results, noDuplicates, finalResults,
                   duplicateStats, rerunResults, file, called, allResults,
                   shareResults, GPOReport, stats, duplicateStatsState,
                   loadedFileName, loadedFileSize, currentView>>

SpecLocalize == InitLocalize /\ [][Localize]_vars

-----------------------------------------------------------------------------
(* Specification of a session: files given one after another, and resets *)

\* the File objects of a session: scanner reports, a scanner report with a
\* finding reported twice, a policy report, texts without a finding, and the
\* texts of .json files that hold entries or that JSON.parse rejects
SessionFiles ==
    {[name |-> "scan.txt", text |-> joinLines(<<ScenarioALine, ShareLine>>)],
     [name |-> "twice.log", text |-> joinLines(<<ScenarioALine, ScenarioALine>>)],
     [name |-> "gpo.txt", text |-> joinLines(<<"[GPO] g", "| GPO | n |", "\\___",
                                               "| Setting - Computer Policy | Registry |">>)],
     [name |-> "empty.txt", text |-> ""],
     [name |-> "shares.txt", text |-> ShareLine]}
        \cup {[name |-> "r.json", text |-> t] :
                 t \in {u \in JsonTexts : \/ ~JSONparse(u).ok
                                          \/ StartsAt(u, "{\"entries\"", 1)}}

InitSession ==
    /\ pc = "idle"
    /\ fileType = "none"
    /\ data = null
    /\ outcome = "none"
    /\ results = <<>>
    /\ noDuplicates = <<>>
    /\ finalResults = <<>>
    /\ duplicateStats = NoStats
    /\ rerunResults = <<>>
    /\ AppInitial

\* a file is dropped or picked: processFile is called with it, nothing of
\* the call has a value yet
SelectFile ==
    /\ pc \in {"idle", "processed"}
    /\ pc' = "selected"
    /\ file' \in SessionFiles
    /\ fileType' = "none"
    /\ data' = null
    /\ outcome' = "none"
    /\ results' = <<>>
    /\ noDuplicates' = <<>>
    /\ finalResults' = <<>>
    /\ duplicateStats' = NoStats
    /\ called' = <<>>
    /\ UNCHANGED <<rerunResults, allResults, shareResults, GPOReport, stats,
                   duplicateStatsState, loadedFileName, loadedFileSize,
                   currentView, errorInfo>>

\* handleReset(), also the handler of the button of the error display
HandleReset ==
    /\ pc \in {"idle", "processed"}
    /\ pc' = "idle"
    /\ allResults' = <<>>
    /\ loadedFileName' = ""
    /\ loadedFileSize' = ""
    /\ currentView' = "dashboard"
    /\ stats' = NoFindingsStats
    /\ shareResults' = <<>>
    /\ GPOReport' = null
    /\ duplicateStatsState' = null
    /\ errorInfo' = null
    /\ file' = null
    /\ UNCHANGED <<fileType, data, outcome, results, noDuplicates, finalResults,
                   duplicateStats, rerunResults, called>>

NextSession == SelectFile \/ ProcessFile \/ HandleReset

SpecSession == InitSession /\ [][NextSession]_vars

-----------------------------------------------------------------------------
(* Properties of the dedup pipeline *)

\* the first k elements of a sequence
Prefix(s, k) == SubSeq(s, 1, k)

\* indices of the raw records of one path
RawOf(path) == {i \in 1..Len(results) : results[i].fullPath = path}

\* indices of the output records of one path
FinalOf(path) == {i \in 1..Len(finalResults) : finalResults[i].fullPath = path}

\* C1: the output of the dedup pipeline holds no two records with the same
\* fullPath, hence no two with the same (fullPath, severity, ruleName).
C1_UniqueFullPath ==
    pc # "extracted" =>
        \A i, j \in 1..Len(finalResults) :
            i # j => /\ finalResults[i].fullPath # finalResults[j].fullPath
                     /\ <<finalResults[i].fullPath, finalResults[i].rating,
                          finalResults[i].ruleName>>
                        # <<finalResults[j].fullPath, finalResults[j].rating,
                             finalResults[j].ruleName>>

\* the pipeline has run on an input where one path has several raw records
\* that survive pass 1 and are collapsed by pass 2
C1_Witness ==
    /\ pc = "deduped"
    /\ \E i, j \in 1..Len(noDuplicates) :
          /\ i # j
          /\ noDuplicates[i].fullPath = noDuplicates[j].fullPath
    /\ Len(finalResults) < Len(noDuplicates)

\* C2: running the pipeline on its own output returns the same records in
\* the same order: nothing is dropped, no rule name changes.
C2_Idempotent ==
    pc = "rerun" => rerunResults = finalResults

\* the rank Red > Yellow > Green that both rankings of the program agree on
RankRYG(rating) ==
    CASE rating = "Red" -> 3 [] rating = "Yellow" -> 2 [] rating = "Green" -> 1

\* C3: when the raw records of one path have different severities among Red,
\* Yellow and Green, the single merged record of the path has the
\* higher-ranked severity, and when one raw record holds that severity the
\* merged record is that record, field for field, in whichever order the raw
\* records arrive.
C3_PriorityMerge ==
    pc = "deduped" =>
        \A p \in Paths :
            LET raw == RawOf(p)
            IN  (/\ \A i \in raw : results[i].rating \in {"Red", "Yellow", "Green"}
                 /\ \E i, j \in raw : results[i].rating # results[j].rating)
                =>
                LET top == CHOOSE i \in raw : \A j \in raw :
                               RankRYG(results[j].rating) <= RankRYG(results[i].rating)
                    tops == {i \in raw : results[i].rating = results[top].rating}
                IN  /\ Cardinality(FinalOf(p)) = 1
                    /\ \A k \in FinalOf(p) :
                          /\ finalResults[k].rating = results[top].rating
                          /\ tops = {top} => finalResults[k] = results[top]

\* C4: after the merge the record kept for a path carries the maximum
\* severity among all raw records of the path, in the order
\* Black > Red > Yellow > Green of the data model.
C4_MaxSeverityBlackFirst ==
    pc = "deduped" =>
        \A p \in Paths :
            \A k \in FinalOf(p) : \A i \in RawOf(p) :
                ratingOrder(results[i].rating) <= ratingOrder(finalResults[k].rating)

\* C5: in pass 2, a record with the path and the severity of the kept record
\* but another rule name leaves the kept record with every field of the first
\* record except ruleName, which becomes "<kept>, <new>"; with the same rule
\* name the new record is dropped and the kept record is unchanged.  No other
\* entry of the map changes.
C5_EqualRankStep ==
    pc # "extracted" =>
        \A k \in 1..Len(noDuplicates) :
            LET fileMap == removePriorityDuplicates(Prefix(noDuplicates, k - 1))
                result  == noDuplicates[k]
                after   == removePriorityDuplicates(Prefix(noDuplicates, k))
            IN  \A i \in 1..Len(fileMap) :
                    (/\ fileMap[i].fullPath = result.fullPath
                     /\ fileMap[i].rating = result.rating)
                    =>
                    /\ Len(after) = Len(fileMap)
                    /\ \A j \in 1..Len(fileMap) : j # i => after[j] = fileMap[j]
                    /\ after[i].ruleName =
                          IF result.ruleName # fileMap[i].ruleName
                          THEN fileMap[i].ruleName \o ", " \o result.ruleName
                          ELSE fileMap[i].ruleName
                    /\ [after[i] EXCEPT !.ruleName = ""]
                          = [fileMap[i] EXCEPT !.ruleName = ""]

\* pass 2 has met both cases: a second rule name was combined into the kept
\* record, and a later record repeating the combined name was dropped
C5_Witness ==
    /\ pc = "deduped"
    /\ Len(noDuplicates) = 3
    /\ \A i \in 1..3 : /\ noDuplicates[i].fullPath = "a"
                       /\ noDuplicates[i].rating = "Yellow"
    /\ noDuplicates[1].ruleName = "x"
    /\ noDuplicates[2].ruleName = "y"
    /\ noDuplicates[3].ruleName = "x, y"
    /\ Len(finalResults) = 1
    /\ finalResults[1].ruleName = "x, y"
    /\ finalResults[1].matchContext = noDuplicates[1].matchContext

-----------------------------------------------------------------------------
(* Properties of the scanner pipeline *)

\* the line has an open token and, after it, the closing character
HasToken(line, open, close) ==
    \E i \in 1..Len(line) : \E j \in (i + Len(open))..Len(line) :
        StartsAt(line, open, i) /\ Char(line, j) = close

\* a [File] line without the {...} severity token or the >(...) path token
BadFileLine(line) ==
    /\ includes(line, "[File]")
    /\ ~HasToken(line, "{", "}") \/ ~HasToken(line, ">(", ")")

\* a [File] line with both tokens
GoodFileLine(line) ==
    /\ includes(line, "[File]")
    /\ HasToken(line, "{", "}") /\ HasToken(line, ">(", ")")

WithoutBadLines(lines) == SelectSeq(lines, LAMBDA l : ~BadFileLine(l))

\* C8: the scanner pipeline never succeeds with an empty result: whenever
\* zero file findings come out of a json or text/log input, parseSnafflerData
\* signals the empty-or-invalid-input error.
C8_EmptyIsRejected ==
    pc = "parsed" =>
        /\ Len(finalResults) = 0 => outcome = EmptyOrInvalidInput
        /\ Len(results) = 0 => outcome = EmptyOrInvalidInput
        /\ outcome = "ok" => Len(finalResults) > 0

\* a JSON input with admissible-looking entries, none of which yields a
\* finding, has been rejected
C8_Witness ==
    /\ pc = "parsed"
    /\ fileType = "json"
    /\ Len(data.entries) = 3
    /\ Len(results) = 0
    /\ outcome = EmptyOrInvalidInput

\* C9: in a text/log input a [File] line that lacks the {...} token or the
\* >(...) token contributes no record and raises no error, and the findings
\* before deduplication are those of the well-formed lines in line order,
\* exactly as if the bad lines were absent.
C9_BadLinesSkipped ==
    (pc = "parsed" /\ fileType # "json") =>
        LET lines == split(data, "\n")
        IN  /\ results = extractFileLines(WithoutBadLines(lines))
            /\ Len(results) = Len(SelectSeq(lines, GoodFileLine))
            /\ outcome \in {"ok", EmptyOrInvalidInput}
            /\ outcome = "ok" <=> Len(SelectSeq(lines, GoodFileLine)) > 0

\* a bad line stood between two well-formed lines, and both were extracted
C9_Witness ==
    /\ pc = "parsed"
    /\ fileType = "log"
    /\ data = joinLines(<<ScannerLine, NoSeverityLine, ScenarioALine>>)
    /\ Len(results) = 2
    /\ results[1].ruleName = "KeepB"
    /\ results[2].ruleName = "KeepConfigRegexRed"
    /\ outcome = "ok"

\* C10 as claimed: the line of Scenario A yields exactly one FileFinding with
\* severity Red, the path, rule name KeepConfigRegexRed and match context
\* exactly 'password=hunter2'.
C10_ScenarioA ==
    (pc = "parsed" /\ fileType # "json"
        /\ data \in {ScenarioALine, ScenarioALineBare}) =>
        /\ Len(finalResults) = 1
        /\ finalResults[1].rating = "Red"
        /\ finalResults[1].fullPath = ScenarioAPath
        /\ finalResults[1].ruleName = "KeepConfigRegexRed"
        /\ finalResults[1].matchContext = "password=hunter2"

\* C10 amended: the line of Scenario A yields exactly one FileFinding with
\* severity Red, the path and rule name KeepConfigRegexRed; its match context
\* is the whole text after the closing parenthesis of the path, trimmed:
\* 'password=hunter2 <KeepConfigRegexRed|50B>'.
C10_ScenarioA_Amended ==
    (pc = "parsed" /\ fileType # "json"
        /\ data \in {ScenarioALine, ScenarioALineBare}) =>
        /\ outcome = "ok"
        /\ Len(results) = 1
        /\ Len(finalResults) = 1
        /\ finalResults[1].rating = "Red"
        /\ finalResults[1].fullPath = ScenarioAPath
        /\ finalResults[1].ruleName = "KeepConfigRegexRed"
        /\ finalResults[1].matchContext
              = "password=hunter2 <KeepConfigRegexRed|50B>"

\* the single line of Scenario A has been parsed
C10_Witness ==
    /\ pc = "parsed"
    /\ fileType = "text"
    /\ data = ScenarioALine
    /\ Len(finalResults) = 1

-----------------------------------------------------------------------------
(* Properties of the upload handlers *)

\* the parsers that the handler has called
Called == Range(called)

\* C6: when the category declared for an upload is json, the handler never
\* calls the policy-report parser nor the text path of the scanner extractor,
\* whatever the content holds; an upload that JSON.parse decodes is handed
\* to the JSON path of the scanner extractor.
C6_JsonNeverPolicyReport ==
    (pc = "processed" /\ fileType = "json") =>
        /\ "parseGPO" \notin Called
        /\ "parseSnafflerText" \notin Called
        /\ GPOReport = null
        /\ Head(called) = "JSON.parse"
        /\ JSONparse(file.text).ok => called[2] = "parseSnafflerJson"

\* a json upload whose decoded value is a text with the marker and a fence
\* token has been handed to the JSON path
C6_Witness ==
    /\ pc = "processed"
    /\ fileType = "json"
    /\ JSONparse(file.text).ok
    /\ looksLikeGPO(rawTextOf(JSONparse(file.text)))
    /\ called = <<"JSON.parse", "parseSnafflerJson">>

\* the lines of a text, a line ending at "\n" or at "\r"
RECURSIVE LinesOf(_)
LinesOf(text) ==
    LET ends == {i \in 1..Len(text) : Char(text, i) \in LineTerminators}
    IN  IF ends = {} THEN <<text>>
        ELSE <<SubSeq(text, 1, Min(ends) - 1)>> \o LinesOf(From(text, Min(ends) + 1))

\* some line begins with '|' after trimming
SomeLineBeginsWithBar(text) ==
    \E l \in Range(LinesOf(text)) : StartsAt(trim(l), "|", 1)

\* some line starts with the fence token, as isBlockFence tells
SomeLineStartsWithFence(text) ==
    \E l \in Range(LinesOf(text)) : isBlockFence(l)

\* some line begins, after leading white space, with '|' and holds a
\* further '|'
SomeLineHasTwoBars(text) ==
    \E l \in Range(LinesOf(text)) :
        StartsAt(trimStart(l), "|", 1) /\ includes(From(trimStart(l), 2), "|")

\* the upload has been handed to the policy-report parser and to no other
SentToPolicyReport == called = <<"parseGPO">> /\ GPOReport # null

\* the upload has been handed to the text path of the scanner extractor
SentToScannerText ==
    /\ called \in {<<"parseSnafflerText">>, <<"parseSnafflerText", "parseShareData">>}
    /\ GPOReport = null

\* C7 as claimed: a text or log input is sent to the policy-report parser if
\* and only if it holds the [GPO] marker and has a line that begins with '|'
\* after trimming or a line that starts with the fence token; every other
\* text/log input goes to the text path of the scanner.
C7_Claimed ==
    (pc = "processed" /\ fileType # "json") =>
        LET signature == /\ includes(file.text, "[GPO]")
                         /\ \/ SomeLineBeginsWithBar(file.text)
                            \/ SomeLineStartsWithFence(file.text)
        IN  /\ signature => SentToPolicyReport
            /\ ~signature => SentToScannerText

\* C7: a text or log input is sent to the policy-report parser if and only if
\* it holds the [GPO] marker and has a line that, after leading white space,
\* begins with '|' and holds a further '|', or holds the fence token \___
\* anywhere; every other text/log input goes to the text path of the scanner.
C7_RoutingOfText ==
    (pc = "processed" /\ fileType # "json") =>
        LET signature == /\ includes(file.text, "[GPO]")
                         /\ \/ SomeLineHasTwoBars(file.text)
                            \/ \E i \in 1..Len(file.text) : StartsAt(file.text, "\\___", i)
        IN  /\ signature => SentToPolicyReport
            /\ ~signature => SentToScannerText

\* a log with the marker and a fence token in the middle of a line has been
\* sent to the policy-report parser
C7_Witness ==
    /\ pc = "processed"
    /\ fileType = "log"
    /\ file.text = "[GPO] g\nt \\___"
    /\ SentToPolicyReport
    /\ GPOReport.raw = file.text

-----------------------------------------------------------------------------
(* Properties of the escape decoder *)

\* C11: an escaped backslash decodes to exactly one backslash, and that
\* backslash is not consumed by a later decoding step, whatever character
\* follows it: the text of two backslashes and then characters other than a
\* backslash and white space decodes to one backslash and those characters
C11_EscapedBackslashKept ==
    \A rest \in MatchContexts :
        pc = "decoded" /\ data = "\\\\" \o rest
                /\ ~includes(rest, "\\") /\ ~includes(rest, " ")
            => outcome = "\\" \o rest

-----------------------------------------------------------------------------
(* Properties of the extracted records *)

\* C12: every FileFinding of either extraction path has a non-empty size
C12_SizeNeverEmpty ==
    pc = "parsed" => \A i \in 1..Len(results) : results[i].size # ""

\* the record was built by parseTextFileLine, which alone sets userContext
FromTextLine(r) == "userContext" \in DOMAIN r

\* C12, amended: a FileFinding built from the FileResult payload of a JSON
\* entry has a non-empty size, "0" when the payload holds no Length; a
\* FileFinding parsed from a line has the size token of the rule details,
\* and the empty string when the rule details hold no size token
C12_SizeOfFinding ==
    pc = "parsed" =>
        \A i \in 1..Len(results) :
            LET r == results[i]
            IN  IF FromTextLine(r)
                THEN /\ r.size = "" <=> r.fullPath = "\\\\host\\share\\e.txt"
                     /\ r.size # "" => r.size \in {"50B", "1.5kB"}
                ELSE /\ r.size # ""
                     /\ r.size = "0" <=> r.fullPath = "\\\\host\\share\\g.txt"

\* a text input has yielded a finding with a size token and one without
C12_Witness ==
    /\ pc = "parsed"
    /\ fileType = "text"
    /\ \E i, j \in 1..Len(results) :
          /\ results[i].size = "" /\ results[i].ruleName = "KeepE"
          /\ results[j].size = "50B"

-----------------------------------------------------------------------------
(* Properties of the share list *)

\* the share records that parseShareData extracts from the upload
ExtractedShares ==
    IF fileType = "json" THEN parseSnafflerShares(data.entries)
    ELSE parseSnafflerSharesText(data)

\* the records of a list that have the system id and the share name of r
SameShare(list, r) ==
    {i \in 1..Len(list) : /\ list[i].systemId = r.systemId
                          /\ list[i].shareName = r.shareName}

\* C13: share findings are never deduplicated: the share list handed to the
\* consumers has as many entries of a system id and share name as records
\* of them were extracted
C13_SharesNeverMerged ==
    "parseShareData" \in Called =>
        \A k \in 1..Len(ExtractedShares) :
            Cardinality(SameShare(shareResults, ExtractedShares[k]))
                >= Cardinality(SameShare(ExtractedShares, ExtractedShares[k]))

\* C13, amended: the extraction of a text or log keeps one record for every
\* [Share] line; the share list handed to the consumers holds exactly one
\* entry for every system id and share name among the extracted records
C13_OneEntryPerShare ==
    "parseShareData" \in Called =>
        /\ fileType # "json" =>
               Len(ExtractedShares)
                   = Cardinality({i \in 1..Len(split(data, "\n")) :
                                     includes(split(data, "\n")[i], "[Share]")})
        /\ \A k \in 1..Len(ExtractedShares) :
               Cardinality(SameShare(shareResults, ExtractedShares[k])) = 1

\* two [Share] lines of the same share were extracted and the list holds
\* one entry of that share
C13_Witness ==
    /\ "parseShareData" \in Called
    /\ fileType = "log"
    /\ Len(ExtractedShares) = 2
    /\ Cardinality(SameShare(ExtractedShares, ExtractedShares[1])) = 2
    /\ Len(shareResults) = 1
    /\ shareResults[1].fileCount = 1

-----------------------------------------------------------------------------
(* Properties of the policy-report parser *)

\* the indices of the lines that hold the [GPO] marker
MarkerLines(lines) == {i \in 1..Len(lines) : includes(lines[i], "[GPO]")}

\* the cells of every line that is a table row
CellsOfLines(lines) ==
    [k \in 1..Len(lines) |-> IF isTableRow(lines[k]) THEN cellsOf(lines[k]) ELSE <<>>]

\* C14: a line with the [GPO] marker starts a policy section only if the
\* line right after it is a table row whose first cell contains "GPO": the
\* report holds one Policy for each such line and none for any other
C14_SectionNeedsHeaderRow ==
    pc = "parsed" =>
        LET lines  == splitLines(data)
            cells  == CellsOfLines(lines)
            starts == {i \in MarkerLines(lines) :
                          /\ i < Len(lines)
                          /\ cells[i + 1] # <<>>
                          /\ includes(cells[i + 1][1], "GPO")}
        IN  /\ Len(GPOReport.gpos) = Cardinality(starts)
            /\ \A g \in 1..Len(GPOReport.gpos) :
                   \E i \in starts : GPOReport.gpos[g].startedAtRaw = lines[i]

\* the index after the section of line i: the next line with the marker
SectionEnd(lines, i) ==
    Min({m \in MarkerLines(lines) : m > i} \cup {Len(lines) + 1})

\* the line at which the body of the block that starts at the fence line i
\* stops: the next marker line, fence line, or blank line after a table row
BodyStop(lines, i) ==
    Min({k \in (i + 1)..(Len(lines) + 1) :
            \/ k = Len(lines) + 1
            \/ includes(lines[k], "[GPO]")
            \/ isBlockFence(lines[k])
            \/ /\ trim(lines[k]) = ""
               /\ \E t \in (i + 1)..(k - 1) : isTableRow(lines[t])})

\* the fence lines of the sections that are no marker lines
FenceLines(lines) ==
    {i \in 1..Len(lines) :
        /\ isBlockFence(lines[i])
        /\ ~includes(lines[i], "[GPO]")
        /\ \E m \in MarkerLines(lines) : m < i}

\* the blocks of the report, of all its sections
Blocks ==
    UNION {Range(GPOReport.gpos[g].settings) : g \in 1..Len(GPOReport.gpos)}

\* C15: a setting block that stops at a blank line returns the index of that
\* line as the next unconsumed line, and no setting block, its nested
\* Finding tables included, consumes the next [GPO] line or a line after it
C15_BlockInsideSection ==
    pc = "parsed" =>
        LET lines == splitLines(data)
        IN  /\ \A i \in FenceLines(lines) :
                   LET stop == BodyStop(lines, i)
                       next == parseSettingBlock(lines, i).next
                   IN  /\ (stop <= Len(lines) /\ trim(lines[stop]) = "")
                           => next = stop
                       /\ next <= SectionEnd(lines, i)
            /\ \A b \in Blocks :
                   \A r \in 1..Len(b.rawLines) : ~includes(b.rawLines[r], "[GPO]")

\* line i is a key-value row of the body of a setting block: a row of two
\* cells that follows the fence line and the row of scope and category of
\* its block and precedes the line at which the body stops
BodyRow(lines, cells, i) ==
    LET fences == {f \in FenceLines(lines) : f < i}
        f      == Max(fences)
    IN  /\ fences # {}
        /\ f + 1 < i /\ i < BodyStop(lines, f)
        /\ Len(cells[f + 1]) >= 2
        /\ includes(toLowerCase(cells[f + 1][1]), "setting")
        /\ Len(cells[i]) = 2

\* lines i and i + 1 are a row of a key with a value and a continuation row
\* with a text, and no other row of the body has that key
Continued(lines, cells, i) ==
    /\ i < Len(lines)
    /\ BodyRow(lines, cells, i) /\ BodyRow(lines, cells, i + 1)
    /\ cells[i][1] # "" /\ cells[i][2] # ""
    /\ cells[i + 1][1] = "" /\ cells[i + 1][2] # ""
    /\ \A k \in 1..Len(lines) :
           (k # i /\ BodyRow(lines, cells, k)) => cells[k][1] # cells[i][1]

\* some block holds under the key a value that begins with the text
HasEntry(key, text) ==
    \E b \in Blocks :
        \E e \in 1..Len(b.entries) :
            /\ b.entries[e].key = key
            /\ Len(b.entries[e].value) >= Len(text)
            /\ SubSeq(b.entries[e].value, 1, Len(text)) = text

\* C16: a continuation row whose text starts with '(' or an alphanumeric
\* character is joined to the value of the previous key with one space, one
\* that starts with any other character with a newline
C16_ContinuationJoin ==
    pc = "parsed" =>
        LET lines == splitLines(data)
            cells == CellsOfLines(lines)
        IN  \A i \in 1..Len(lines) :
                Continued(lines, cells, i) =>
                    HasEntry(cells[i][1],
                             cells[i][2]
                                 \o (IF Char(cells[i + 1][2], 1)
                                            \in (WordChars \ {"_"}) \cup {"("}
                                     THEN " " ELSE "\n")
                                 \o cells[i + 1][2])

\* C16, amended: a continuation row whose text starts with a word character
\* (a letter, a digit or '_') or with one of - ( ) \ / . is joined to the
\* non-empty value of the previous key with one space, one that starts with
\* any other character with a newline
C16_ContinuationJoinAmended ==
    pc = "parsed" =>
        LET lines == splitLines(data)
            cells == CellsOfLines(lines)
        IN  \A i \in 1..Len(lines) :
                Continued(lines, cells, i) =>
                    HasEntry(cells[i][1],
                             cells[i][2]
                                 \o (IF Char(cells[i + 1][2], 1)
                                            \in WordChars \cup {"-", "(", ")", "\\", "/", "."}
                                     THEN " " ELSE "\n")
                                 \o cells[i + 1][2])

\* a continuation row that starts with '-' was joined with a space
C16_Witness ==
    /\ pc = "parsed"
    /\ LET lines == splitLines(data)
           cells == CellsOfLines(lines)
       IN  \E i \in 1..Len(lines) :
               Continued(lines, cells, i) /\ cells[i + 1][2] = "- b"
    /\ HasEntry("K", "v - b")

\* C17: a body row whose key is already in the map of the block is merged
\* into the value of that key, with a newline for the key "Member" and with
\* the join heuristic for any other key, and no earlier value is lost: of
\* two rows of one key that follow each other the map holds both values
C17_RepeatedKeyMerged ==
    pc = "parsed" =>
        LET lines == splitLines(data)
            cells == CellsOfLines(lines)
        IN  \A i \in 1..(Len(lines) - 1) :
                (/\ BodyRow(lines, cells, i) /\ BodyRow(lines, cells, i + 1)
                 /\ cells[i][1] # "" /\ cells[i][1] = cells[i + 1][1]
                 /\ cells[i][2] # "" /\ cells[i + 1][2] # ""
                 /\ \A k \in 1..Len(lines) :
                        (k \notin {i, i + 1} /\ BodyRow(lines, cells, k))
                            => cells[k][1] # cells[i][1])
                    => HasEntry(cells[i][1],
                                IF cells[i][1] = "Member"
                                THEN cells[i][2] \o "\n" \o cells[i + 1][2]
                                ELSE joinValue(cells[i][2], cells[i + 1][2]))

\* the header rows of the section of marker line m: the table rows of two
\* cells or more that follow line m without a gap, inside the section
HeaderRowsOf(lines, m) ==
    {i \in (m + 1)..(tableEnd(lines, m + 1, SectionEnd(lines, m)) - 1) :
        Len(cellsOf(lines[i])) >= 2}

\* the values of the header rows of section m whose key starts with "link",
\* in row order
LinkValues(lines, m) ==
    LET rows == SelectSeq([i \in 1..Len(lines) |-> i],
                          LAMBDA i : /\ i \in HeaderRowsOf(lines, m)
                                     /\ StartsAt(toLowerCase(cellsOf(lines[i])[1]),
                                                 "link", 1))
    IN  [n \in 1..Len(rows) |-> cellsOf(lines[rows[n]])[2]]

\* C18: every header row whose key starts with "link" is kept by the policy:
\* of a policy with n link rows, rows of one key text included, the header
\* holds as many link values as rows and each value of a row, none written
\* over another
C18_LinksRetained ==
    pc = "parsed" =>
        LET lines   == splitLines(data)
            markers == SelectSeq([i \in 1..Len(lines) |-> i],
                                 LAMBDA i : i \in MarkerLines(lines))
        IN  \A g \in 1..Len(GPOReport.gpos) :
                LET links  == LinkValues(lines, markers[g])
                    header == GPOReport.gpos[g].header
                    kept   == SelectSeq(header,
                                  LAMBDA p : StartsAt(toLowerCase(p.key), "link", 1))
                IN  /\ Len(kept) = Len(links)
                    /\ \A n \in 1..Len(links) :
                           \E p \in 1..Len(kept) : kept[p].value = links[n]

\* line f is the fence line of a setting block with its row of scope and
\* category, and the line at which the body of the block stops is the fence
\* line of a nested table whose first row does not start with "Finding"
NestedOther(lines, cells, f) ==
    LET n == BodyStop(lines, f)
    IN  /\ f \in FenceLines(lines)
        /\ Len(cells[f + 1]) >= 2
        /\ includes(toLowerCase(cells[f + 1][1]), "setting")
        /\ ~includes(toLowerCase(cells[f + 1][1]), "finding")
        /\ n < Len(lines)
        /\ isBlockFence(lines[n]) /\ ~includes(lines[n], "[GPO]")
        /\ cells[n + 1] # <<>>
        /\ ~includes(toLowerCase(cells[n + 1][1]), "finding")

\* the blocks of the report of the first n lines
BlocksBefore(lines, n) ==
    LET report == parseGPO(joinLines(SubSeq(lines, 1, n)))
    IN  UNION {Range(report.gpos[g].settings) : g \in 1..Len(report.gpos)}

\* C19: a fenced nested table that follows the rows of a setting block and
\* whose first row does not start with "Finding" is merged into the map of
\* the parent block: the parent holds the keys of its rows, it gains no
\* finding, and no block of the report starts at the fence of the table
C19_NestedTableMerged ==
    pc = "parsed" =>
        LET lines == splitLines(data)
            cells == CellsOfLines(lines)
        IN  \A f \in 1..Len(lines) :
                NestedOther(lines, cells, f) =>
                    LET n      == BodyStop(lines, f)
                        parent == parseSettingBlock(lines, f).block
                    IN  /\ parent \in Blocks
                        /\ parent.findings = <<>>
                        /\ propIndex(parent.entries, cells[n + 1][1]) # 0
                        /\ \A b \in Blocks :
                               ~(/\ Len(b.rawLines) >= 2
                                 /\ b.rawLines[2] = lines[n + 1])

\* C19, amended: the nested table is left to the loop over the section: the
\* parent block is the block the report has without the table, with no entry
\* and no finding of it, and the table is the next block of the section, a
\* SettingBlock of its own that holds the key of its first row
C19_NestedTableSeparate ==
    pc = "parsed" =>
        LET lines == splitLines(data)
            cells == CellsOfLines(lines)
        IN  \A f \in 1..Len(lines) :
                NestedOther(lines, cells, f) =>
                    LET n      == BodyStop(lines, f)
                        parent == parseSettingBlock(lines, f).block
                    IN  /\ parent \in BlocksBefore(lines, n - 1)
                        /\ parent.findings = <<>>
                        /\ parent.rawLines = SubSeq(lines, f, n - 1)
                        /\ \E g \in 1..Len(GPOReport.gpos) :
                               LET settings == GPOReport.gpos[g].settings
                               IN  \E s \in 1..(Len(settings) - 1) :
                                       /\ settings[s] = parent
                                       /\ settings[s + 1].rawLines[1] = lines[n]
                                       /\ settings[s + 1].rawLines[2] = lines[n + 1]
                                       /\ (/\ Len(cells[n + 1]) >= 2
                                           /\ cells[n + 1][1] # ""
                                           /\ ~includes(toLowerCase(cells[n + 1][1]),
                                                        "setting"))
                                              => propIndex(settings[s + 1].entries,
                                                           cells[n + 1][1]) # 0

\* a report whose setting block has the entry K = "v" and is followed by a
\* nested table that is no Finding: the table is the second block, with K = "n"
C19_Witness ==
    /\ pc = "parsed"
    /\ \E f \in 1..Len(splitLines(data)) :
           NestedOther(splitLines(data), CellsOfLines(splitLines(data)), f)
    /\ \E g \in 1..Len(GPOReport.gpos) :
           LET settings == GPOReport.gpos[g].settings
           IN  /\ Len(settings) = 2
               /\ propOr(settings[1].entries, "K", "") = "v"
               /\ propOr(settings[2].entries, "K", "") = "n"
               /\ settings[1].findings = <<>>

\* line t is the fence line of a table whose first row matches "Finding"
FindingFence(lines, cells, t) ==
    /\ t < Len(lines)
    /\ isBlockFence(lines[t])
    /\ cells[t + 1] # <<>>
    /\ includes(toLowerCase(cells[t + 1][1]), "finding")

\* the fence lines of the Finding tables that follow the body of the block
\* of fence line f without a gap, in document order: from the line at which
\* the body stops on, every line is a table row or the fence line of a
\* Finding table
FindingFences(lines, cells, f) ==
    LET n == BodyStop(lines, f)
    IN  SelectSeq([t \in 1..Len(lines) |-> t],
                  LAMBDA t : /\ n <= t
                             /\ FindingFence(lines, cells, t)
                             /\ \A u \in n..t :
                                    \/ cells[u] # <<>>
                                    \/ FindingFence(lines, cells, u))

\* the map of the rows of the Finding table of fence line t after its first
BodyOf(lines, cells, t) ==
    coalesceKVRows(parseTableRows(
        SubSeq(lines, t + 2, tableEnd(lines, t + 1, Len(lines) + 1) - 1)))

\* C20: each fenced table that follows a setting block without a gap and
\* whose first row matches "Finding" is one Finding of the block, in document
\* order; its type is the second cell of that row when present and not
\* empty, else the value of the key "Finding" or "Type" of its body, and
\* its reason is the value of the key "Reason" of its body
C20_FindingOfNestedTable ==
    pc = "parsed" =>
        LET lines == splitLines(data)
            cells == CellsOfLines(lines)
        IN  \A f \in FenceLines(lines) :
                (/\ Len(cells[f + 1]) >= 2
                 /\ includes(toLowerCase(cells[f + 1][1]), "setting")
                 /\ ~includes(toLowerCase(cells[f + 1][1]), "finding"))
                    => LET fences   == FindingFences(lines, cells, f)
                           findings == parseSettingBlock(lines, f).block.findings
                       IN  /\ parseSettingBlock(lines, f).block \in Blocks
                           /\ Len(findings) = Len(fences)
                           /\ \A q \in 1..Len(fences) :
                                  LET head == cells[fences[q] + 1]
                                      body == BodyOf(lines, cells, fences[q])
                                  IN  /\ findings[q].type =
                                             IF Len(head) > 1 /\ head[2] # ""
                                             THEN Some(head[2])
                                             ELSE IF propOr(body, "Finding", "") # ""
                                             THEN Some(propOr(body, "Finding", ""))
                                             ELSE IF propIndex(body, "Type") # 0
                                             THEN Some(propOr(body, "Type", ""))
                                             ELSE undefined
                                      /\ propOr(body, "Reason", "") # ""
                                             => findings[q].reason =
                                                    Some(propOr(body, "Reason", ""))

\* a block followed by two Finding tables, the first with an empty second
\* cell in its first row and the rows Type and Reason: two findings in the
\* order of the tables, the first of type Green with the reason r
C20_Witness ==
    /\ pc = "parsed"
    /\ \E b \in Blocks :
           /\ Len(b.findings) = 2
           /\ b.findings[1].type = Some("Green")
           /\ b.findings[1].reason = Some("r")
           /\ b.findings[2].type = Some("Yellow")
           /\ b.findings[2].reason = undefined


-----------------------------------------------------------------------------
(* Properties of the merged records *)

\* C25: the duplicate statistics are consistent and free of side effects:
\* originalCount is the number of findings before deduplication, finalCount
\* the number returned, duplicatesRemoved their difference and not negative,
\* the percentage 0 when originalCount is 0, and the returned records are
\* those of the two passes, whatever the statistics
C25_StatsConsistent ==
    pc # "extracted" =>
        /\ duplicateStats.originalCount = Len(results)
        /\ duplicateStats.finalCount = Len(finalResults)
        /\ duplicateStats.duplicatesRemoved = Len(results) - Len(finalResults)
        /\ duplicateStats.duplicatesRemoved >= 0
        /\ Len(results) = 0 => duplicateStats.duplicatePercentageX100 = 0
        /\ duplicateStats.duplicatePercentageX100 \in 0..10000
        /\ finalResults = removePriorityDuplicates(removeDuplicates(results))

\* three findings went in and one came out: two were removed, 66.67 percent
C25_Witness ==
    /\ pc = "deduped"
    /\ Len(results) = 3
    /\ Len(finalResults) = 1
    /\ duplicateStats.duplicatesRemoved = 2
    /\ duplicateStats.duplicatePercentageX100 = 6667

\* the raw records of the path with the rating, in input order
RawWith(path, rating) ==
    SelectSeq(results, LAMBDA r : r.fullPath = path /\ r.rating = rating)

\* the rule names of the records, each once, in the order of first occurrence
RECURSIVE DistinctRules(_, _)
DistinctRules(records, seen) ==
    IF records = <<>> THEN <<>>
    ELSE IF Head(records).ruleName \in seen THEN DistinctRules(Tail(records), seen)
    ELSE <<Head(records).ruleName>>
             \o DistinctRules(Tail(records), seen \cup {Head(records).ruleName})

\* names.join(', ')
RECURSIVE JoinRules(_)
JoinRules(names) ==
    IF Len(names) = 1 THEN names[1]
    ELSE names[1] \o ", " \o JoinRules(Tail(names))

\* C26: the merged record of a path has as ruleName the distinct rule names
\* of the raw records of the path with the final severity, each once, in the
\* order of first occurrence, joined by ", ", no rule name of a lower-ranked
\* record among them, and every other field from the first raw record with
\* the final severity
C26_MergedRuleNames ==
    pc # "extracted" =>
        \A p \in {results[i].fullPath : i \in 1..Len(results)} :
            /\ Cardinality(FinalOf(p)) = 1
            /\ \A k \in FinalOf(p) :
                   LET final == finalResults[k]
                       raw   == RawWith(p, final.rating)
                   IN  /\ raw # <<>>
                       /\ final.ruleName = JoinRules(DistinctRules(raw, {}))
                       /\ [final EXCEPT !.ruleName = ""]
                              = [raw[1] EXCEPT !.ruleName = ""]

\* C27: the pipeline keeps the order of first occurrence of the paths: the
\* output holds one record for each path of the input, in the order in which
\* the paths first appear in the input
C27_FirstOccurrenceOrder ==
    pc # "extracted" =>
        LET first(p) == CHOOSE i \in RawOf(p) : \A j \in RawOf(p) : i <= j
        IN  /\ {finalResults[k].fullPath : k \in 1..Len(finalResults)}
                   = {results[i].fullPath : i \in 1..Len(results)}
            /\ \A k, l \in 1..Len(finalResults) :
                   k < l => first(finalResults[k].fullPath)
                                < first(finalResults[l].fullPath)

-----------------------------------------------------------------------------
(* Properties of the walk over a policy report *)

\* C28: parseGPO returns a report on every input: a setting-block parse that
\* starts at a fence line returns a next index greater than its start index,
\* having consumed the lines from the start up to the next index, and the
\* line ranges consumed by the successive setting blocks of one policy are
\* disjoint and strictly increasing
C28_BlocksAdvance ==
    pc = "parsed" =>
        LET lines  == splitLines(data)
            gpoIdx == SelectSeq([i \in 1..Len(lines) |-> i],
                                LAMBDA i : i \in MarkerLines(lines))
        IN  /\ GPOReport.raw = data
            /\ Len(GPOReport.gpos) = Len(gpoIdx)
            /\ \A i \in 1..Len(lines) :
                   isBlockFence(lines[i]) =>
                       LET parsed == parseSettingBlock(lines, i)
                       IN  /\ parsed.next > i
                           /\ parsed.next <= Len(lines) + 1
                           /\ parsed.block.rawLines = SubSeq(lines, i, parsed.next - 1)
            /\ \A g \in 1..Len(gpoIdx) :
                   LET end      == IF g < Len(gpoIdx) THEN gpoIdx[g + 1]
                                   ELSE Len(lines) + 1
                       first    == tableEnd(lines, gpoIdx[g] + 1, end)
                       ranges   == blockRanges(lines, first, end, <<>>)
                       settings == GPOReport.gpos[g].settings
                   IN  /\ Len(settings) = Len(ranges)
                       /\ \A k \in 1..Len(ranges) :
                              /\ gpoIdx[g] < ranges[k].start
                              /\ ranges[k].start < ranges[k].next
                              /\ settings[k].rawLines
                                     = SubSeq(lines, ranges[k].start, ranges[k].next - 1)
                              /\ k < Len(ranges)
                                     => ranges[k].next <= ranges[k + 1].start

\* a policy with three setting blocks, the first with its rows, the second a
\* fence right behind which the third starts: its parse returns the index
\* after it
C28_Witness ==
    /\ pc = "parsed"
    /\ Len(GPOReport.gpos) = 1
    /\ LET settings == GPOReport.gpos[1].settings
       IN  /\ Len(settings) = 3
           /\ Len(settings[1].rawLines) >= 3
           /\ settings[2].rawLines = <<"\\___">>
           /\ settings[3].rawLines = <<"\\___", "| S | t |">>
    /\ \E i \in 1..Len(splitLines(data)) :
           /\ isBlockFence(splitLines(data)[i])
           /\ parseSettingBlock(splitLines(data), i).next = i + 1

-----------------------------------------------------------------------------
(* Properties of a session *)

\* C29: after any sequence of uploads and resets the scanner data and the
\* policy data are never held together: while a policy report is held the
\* findings and the shares are empty, and while there are findings the
\* policy report is null
C29_NeverLoadedTogether ==
    /\ GPOReport # null => (allResults = <<>> /\ shareResults = <<>>)
    /\ allResults # <<>> => GPOReport = null

\* a policy report is held, loaded from gpo.txt, after a scanner file given
\* later has failed: the findings and the shares are empty
C29_Witness ==
    /\ pc = "processed"
    /\ outcome = EmptyOrInvalidInput
    /\ file.name = "shares.txt"
    /\ GPOReport # null
    /\ loadedFileName = "gpo.txt"
    /\ allResults = <<>>
    /\ shareResults = <<>>

\* C30: a failing upload, by a JSON decode failure or by zero findings,
\* leaves the findings, the shares, the policy report, the stats, the
\* duplicate stats, the file name and the file size as they were: it changes
\* only the error payload
C30_FailureKeepsLoaded ==
    [][(pc = "selected" /\ pc' = "processed" /\ outcome' # "ok")
          => /\ UNCHANGED <<allResults, shareResults, GPOReport, stats,
                            duplicateStatsState, loadedFileName, loadedFileSize,
                            currentView>>
             /\ errorInfo' # null]_vars

\* a file without findings was given while the findings, the shares and the
\* duplicate stats of twice.log or scan.txt were held: they are still held,
\* under the name of their file, next to the error payload of the new file
C30_Witness ==
    /\ pc = "processed"
    /\ outcome = EmptyOrInvalidInput
    /\ errorInfo # null
    /\ errorInfo.fileName = file.name
    /\ allResults # <<>>
    /\ loadedFileName \in {"scan.txt", "twice.log"}
    /\ loadedFileName # file.name
    /\ stats.total = Len(allResults)

-----------------------------------------------------------------------------
(* Properties of the JSON extractor *)

\* the entry is of level Warn and its message holds the [File] marker
FileEntry(entry) == entry.level = "Warn" /\ includes(entry.message, "[File]")

\* the severity keys under which the payload of the entry holds a file-result
\* with file-info, text-result and matched-rule
FullPayloads(entry) ==
    IF "eventProperties" \notin DOMAIN entry THEN {}
    ELSE {k \in {"Red", "Green", "Yellow", "Black"} \cap DOMAIN entry.eventProperties :
             /\ "FileResult" \in DOMAIN entry.eventProperties[k]
             /\ {"FileInfo", "TextResult", "MatchedRule"}
                    \subseteq DOMAIN entry.eventProperties[k].FileResult}

\* the payload of the entry is there and empty
EmptyPayload(entry) ==
    "eventProperties" \in DOMAIN entry /\ DOMAIN entry.eventProperties = {}

\* the sum of count over the entries
SumOver(entries, count(_)) ==
    LET RECURSIVE upTo(_)
        upTo(n) == IF n = 0 THEN 0 ELSE upTo(n - 1) + count(entries[n])
    IN  upTo(Len(entries))

\* C24: an entry yields a FileFinding only if its level is Warn, its message
\* holds [File] and its payload holds, under a severity key, a file-result
\* with file-info, text-result and matched-rule; an entry that lacks one of
\* these yields no record and no error and stops no later entry: the
\* findings before deduplication are those of the full payloads
C24_OnlyFullPayloads ==
    (pc = "parsed" /\ fileType = "json") =>
        /\ Len(results) =
               SumOver(data.entries,
                       LAMBDA e : IF FileEntry(e) THEN Cardinality(FullPayloads(e))
                                  ELSE 0)
        /\ outcome \in {"ok", EmptyOrInvalidInput}

\* C24, amended: the findings before deduplication are those of the full
\* payloads of the entries of level Warn with [File] in the message, and one
\* for each such entry with an empty payload whose message is a well-formed
\* [File] line; every other entry yields no record and no error and stops no
\* later entry
C24_PayloadOrMessage ==
    (pc = "parsed" /\ fileType = "json") =>
        /\ Len(results) =
               SumOver(data.entries,
                       LAMBDA e : IF ~FileEntry(e) THEN 0
                                  ELSE IF EmptyPayload(e) /\ GoodFileLine(e.message)
                                  THEN 1
                                  ELSE Cardinality(FullPayloads(e)))
        /\ outcome \in {"ok", EmptyOrInvalidInput}

\* an entry whose payload lacks the matched-rule stood before an entry with an
\* empty payload and a scanner line as message, and before an entry with a
\* full payload: the two last were extracted
C24_Witness ==
    /\ pc = "parsed"
    /\ fileType = "json"
    /\ Len(data.entries) = 3
    /\ FileEntry(data.entries[1]) /\ ~EmptyPayload(data.entries[1])
    /\ FullPayloads(data.entries[1]) = {}
    /\ EmptyPayload(data.entries[2])
    /\ FullPayloads(data.entries[3]) = {"Red"}
    /\ Len(results) = 2
    /\ results[1].ruleName = "KeepB"
    /\ results[2].ruleName = "KeepA"
    /\ outcome = "ok"

-----------------------------------------------------------------------------
(* Properties of the error report *)

\* the snippet is cut out of the text: "..." stands where text is left out
\* before position a or after position b (0-based, as substring takes them)
CutOut(text, a, b) ==
    (IF a > 0 THEN "..." ELSE "")
        \o substring(text, a, b)
        \o (IF b < Len(text) THEN "..." ELSE "")

\* the window of 150 characters to either side of position p
PositionWindow(text, p) ==
    CutOut(text, Max({0, p - 150}), Min({Len(text), p + 150}))

\* the trailing and the leading 300 characters
Trailing(text) == CutOut(text, Max({0, Len(text) - 300}), Len(text))
Leading(text) == CutOut(text, 0, Min({Len(text), 300}))

\* the message mentions one of the words, in any letter case
Mentions(message, words) ==
    \E w \in words : includes(toLowerCase(message), w)

\* the error report holds a snippet: the catch of processFile has completed
Localized == "snippet" \in DOMAIN errorInfo

C22_LineWindow ==
    (pc = "localized" /\ fileType = "json" /\ lineColumnMatchOf(outcome).found
        /\ lineColumnMatchOf(outcome).line >= 1) =>
        LET N     == lineColumnMatchOf(outcome).line
            lines == split(file.text, "\n")
            L     == Len(lines)
            a     == Max({1, N - 2})
            b     == Min({L, N + 2})
            \* the text of the lines a to b, with the terminator of each
            body  == joinLines(SubSeq(lines, a, b)) \o (IF b < L THEN "\n" ELSE "")
        IN  /\ Localized
            /\ errorInfo.actualLineNumber = Some(N)
            /\ errorInfo.snippetStartLine = Some(a)
            /\ errorInfo.snippet =
                   (IF a > 1 THEN "..." ELSE "") \o body \o (IF b < L THEN "..." ELSE "")
            /\ N <= L =>
                   LET shown == split(errorInfo.snippet, "\n")
                       index == N - a + 1
                   IN  /\ index <= Len(shown)
                       /\ shown[index] = (IF index = 1 /\ a > 1 THEN "..." ELSE "")
                                             \o lines[N]

\* C23: the error report never raises: for every message and every text, a
\* reported line or position beyond the end of the text included, the catch
\* of processFile completes and sets a report with the message of the error
C23_LocalizerNeverRaises ==
    pc = "localized" =>
        /\ Localized
        /\ outcome # "" => errorInfo.message = outcome

====
